---------------------------- MODULE Spec2Model ----------------------------
(***************************************************************************)
(* A model of the kelp-os gateway daemon (src/src-c/gateway): the epoll    *)
(* reactor, the per-connection read buffer, the HTTP request parser, the   *)
(* router, the response writer, the bearer-token check and the daemon's    *)
(* start-up / shutdown path.                                               *)
(*                                                                         *)
(* The specifications of the module:                                       *)
(*   Spec        the reactor: accept, readiness events, parse, dispatch,   *)
(*               response write, close; clients send up to MaxRequests     *)
(*               ordinary requests;                                        *)
(*   SpecLimits  the same reactor; clients send one request taken from     *)
(*               the whole catalogue, the ones at the declared limits      *)
(*               included;                                                 *)
(*   SpecAuth    auth_gateway_check applied to bounded requests and        *)
(*               tokens;                                                   *)
(*   SpecLife    main(), the signal handler and the event loop;            *)
(*   SpecUpgrade, SpecFrame, SpecRouter, SpecResponse, SpecChat            *)
(*               ws_handle_upgrade, ws_read_frame / ws_send_text, the      *)
(*               router, the response builder and handler_chat /           *)
(*               handler_webhook, each applied to bounded arguments;       *)
(*   SpecSse     the SSE parser fed a byte stream in chunks;               *)
(*   SpecStore   the session store: create, add_message, get_history and   *)
(*               the clock;                                                *)
(*   SpecHistory get_history on stores whose contents hold quotes,         *)
(*               backslashes and newlines;                                 *)
(*   SpecTools   the tool registry: kelp_tool_register,                    *)
(*               kelp_tool_get_definitions_json and kelp_tool_execute;     *)
(*   SpecWs      the reactor with the route GET /ws registered;            *)
(*   SpecTable   the reactor with /health requests only, for the          *)
(*               connection table;                                         *)
(*   SpecBuffer  the reactor with one request at the limit of the read     *)
(*               buffer;                                                   *)
(*   SpecDesktop the chat panel of the desktop: the UI thread and the      *)
(*               response threads;                                         *)
(*   SpecRing    the message ring of /dev/oclaw: processes that write and  *)
(*               read the device.                                          *)
(*                                                                         *)
(* Bytes on the wire are not enumerated one by one.  A request a client    *)
(* sends is an entry of a fixed catalogue (Wire); the state records how    *)
(* many of its bytes have reached the socket and the read buffer.  All     *)
(* sizes are the real ones (an 8192-byte initial buffer, a 1 MiB body      *)
(* limit), so the arithmetic of the code is the arithmetic of the model.   *)
(* Strings that the code compares character by character are sequences of *)
(* one-character strings.                                                  *)
(*                                                                         *)
(* Assumptions on the environment: malloc/realloc/calloc succeed; a client *)
(* does not start the bytes of its next request before the server has      *)
(* consumed the previous one (section 5 of the specification: pipelining   *)
(* is not supported).                                                      *)
(***************************************************************************)
EXTENDS Integers, Sequences, FiniteSets, TLC

(***************************************************************************)
(* Program constants.                                                      *)
(***************************************************************************)
GW_READ_BUF_SIZE == 8192
GW_MAX_HEADERS == 64
GW_MAX_URL_LEN == 2048
GW_MAX_BODY_LEN == 1048576
\* gateway_create: gw->max_fd = 1024; accept_connections: client_fd + 256
GW_INITIAL_MAX_FD == 1024
GW_FD_GROWTH == 256
HDR_KEY_SIZE == 256
HDR_VALUE_SIZE == 512

OC_OK == 0
OC_ERR_AUTH == -3
OC_ERR_IO == -6

HTTP_GET == "HTTP_GET"
HTTP_POST == "HTTP_POST"
HTTP_PUT == "HTTP_PUT"
HTTP_DELETE == "HTTP_DELETE"
HTTP_OPTIONS == "HTTP_OPTIONS"
HTTP_HEAD == "HTTP_HEAD"
HTTP_UNKNOWN == "HTTP_UNKNOWN"

CONN_READING_HEADERS == "CONN_READING_HEADERS"
CONN_READING_BODY == "CONN_READING_BODY"
CONN_PROCESSING == "CONN_PROCESSING"
CONN_WRITING == "CONN_WRITING"
CONN_WEBSOCKET == "CONN_WEBSOCKET"
CONN_CLOSED == "CONN_CLOSED"

\* the null pointers: of a connection, of a string; NONE where a name is absent
NULL == [null |-> TRUE]
NULLSTR == <<"NULL">>
NONE == "NONE"

(***************************************************************************)
(* Bounds of the model.                                                    *)
(***************************************************************************)
\* file descriptors a client connection can get (accept returns the lowest free)
MaxFd == 2
\* requests the clients send in one run, over all connections
MaxRequests == 2
\* readiness events without data the kernel reports in one run
MaxSpurious == 1

(***************************************************************************)
(* C strings as sequences of characters.                                   *)
(***************************************************************************)
Min(a, b) == IF a < b THEN a ELSE b

Pad(n) == [i \in 1..n |-> "x"]

UpperCase == <<"A","B","C","D","E","F","G","H","I","J","K","L","M",
               "N","O","P","Q","R","S","T","U","V","W","X","Y","Z">>
LowerCase == <<"a","b","c","d","e","f","g","h","i","j","k","l","m",
               "n","o","p","q","r","s","t","u","v","w","x","y","z">>

\* tolower(3)
tolower(c) ==
    IF \E i \in 1..26 : UpperCase[i] = c
    THEN LowerCase[CHOOSE i \in 1..26 : UpperCase[i] = c]
    ELSE c

\* strcmp(a, b) == 0
strcmp(a, b) == IF a = b THEN 0 ELSE 1

\* strncmp(a, b, n) == 0: the first n characters agree, or both strings end
\* at the same earlier place
strncmp(a, b, n) ==
    IF /\ \A i \in 1..n : (i <= Len(a) /\ i <= Len(b)) => a[i] = b[i]
       /\ (Len(a) < n \/ Len(b) < n) => Len(a) = Len(b)
    THEN 0 ELSE 1

\* strcasecmp(a, b) == 0
strcasecmp(a, b) ==
    IF /\ Len(a) = Len(b)
       /\ \A i \in 1..Len(a) : tolower(a[i]) = tolower(b[i])
    THEN 0 ELSE 1

\* val + n: the string from its (n+1)-th character on
StrFrom(val, n) == SubSeq(val, n + 1, Len(val))

DigitChars == <<"0","1","2","3","4","5","6","7","8","9">>
IsDigit(c) == \E i \in 1..10 : DigitChars[i] = c
DigitVal(c) == (CHOOSE i \in 1..10 : DigitChars[i] = c) - 1

\* atol(3) on a string without leading white space or sign: the value of
\* its longest prefix of digits
RECURSIVE atolFrom(_, _, _)
atolFrom(s, i, acc) ==
    IF i <= Len(s) /\ IsDigit(s[i])
    THEN atolFrom(s, i + 1, acc * 10 + DigitVal(s[i]))
    ELSE acc
atol(s) == atolFrom(s, 1, 0)

sGET == <<"G","E","T">>
sPOST == <<"P","O","S","T">>
sPUT == <<"P","U","T">>
sDELETE == <<"D","E","L","E","T","E">>
sOPTIONS == <<"O","P","T","I","O","N","S">>
sHEAD == <<"H","E","A","D">>
sContentLength == <<"C","o","n","t","e","n","t","-","L","e","n","g","t","h">>
sConnection == <<"C","o","n","n","e","c","t","i","o","n">>
sAuthorization == <<"A","u","t","h","o","r","i","z","a","t","i","o","n">>
sBearer == <<"B","e","a","r","e","r"," ">>
sClose == <<"c","l","o","s","e">>
sSecWebSocketKey ==
    <<"S","e","c","-","W","e","b","S","o","c","k","e","t","-","K","e","y">>
pWs == <<"/","w","s">>
pHealth == <<"/","h","e","a","l","t","h">>
pHook == <<"/","h","o","o","k","s","/","w","e","b","c","h","a","t">>
pChat == <<"/","v","1","/","c","h","a","t","/","c","o","m","p","l","e","t","i","o","n","s">>


(***************************************************************************)
(* The requests clients send.  A wire request is                           *)
(*   line     "ok": METHOD SP URL SP HTTP/1.1; "nospace": a single word;   *)
(*            "onespace": METHOD SP URL with no version                    *)
(*   method   the method word                                              *)
(*   path     the URL up to its '?'                                        *)
(*   qlen     the length of the query after '?', or -1 when there is none  *)
(*   headers  the header lines "key: value", in order                      *)
(*   body     the number of bytes that follow the blank line               *)
(* The two malformed shapes carry no header line and no body, so that the  *)
(* header block holds no other space character.                            *)
(***************************************************************************)
Hdr(k, v) == [key |-> k, value |-> v]

Filler(n) == [i \in 1..n |-> Hdr(<<"X">>, <<"y">>)]

sTok == <<"t","k">>
sTokX == <<"t","k","x">>

Req(m, p, hs, b) ==
    [line |-> "ok", method |-> m, path |-> p, qlen |-> -1, headers |-> hs, body |-> b]

WireIds ==
    {"health", "health_close", "health_CLOSE", "health_auth", "hook", "hook5",
     "opts", "nope", "badline", "noversion", "url_2047", "url_2048",
     "key_255", "key_256", "val_511", "val_512", "hdr_64", "hdr_65",
     "body_8192", "body_fit", "body_max", "body_over"}

\* the largest body that, with the 57-byte header block of "body_fit", leaves
\* two bytes of the read buffer at its largest (1 MiB) unused
BodyFit == GW_MAX_BODY_LEN - 59

Wire(id) ==
    CASE id = "health" -> Req(sGET, pHealth, <<>>, 0)
      [] id = "health_close" ->
            Req(sGET, pHealth, <<Hdr(sConnection, sClose)>>, 0)
      [] id = "health_CLOSE" ->
            Req(sGET, pHealth,
                <<Hdr(<<"c","o","n","n","e","c","t","i","o","n">>,
                      <<"C","L","O","S","E">>)>>, 0)
      [] id = "health_auth" ->
            Req(sGET, pHealth, <<Hdr(sAuthorization, sBearer \o sTok)>>, 0)
      [] id = "ws" ->
            Req(sGET, pWs, <<Hdr(sSecWebSocketKey, <<"k","e","y">>)>>, 0)
      [] id = "hook" -> Req(sPOST, pHook, <<>>, 0)
      [] id = "hook5" ->
            Req(sPOST, pHook, <<Hdr(sContentLength, <<"5">>)>>, 5)
      [] id = "opts" -> Req(sOPTIONS, pChat, <<>>, 0)
      [] id = "nope" -> Req(sGET, <<"/","n","o","p","e">>, <<>>, 0)
      [] id = "badline" ->
            [line |-> "nospace", method |-> <<"B","A","D">>, path |-> <<>>,
             qlen |-> -1, headers |-> <<>>, body |-> 0]
      [] id = "noversion" ->
            [line |-> "onespace", method |-> sGET, path |-> pHealth,
             qlen |-> -1, headers |-> <<>>, body |-> 0]
      [] id = "url_2047" ->
            [Req(sGET, pHealth, <<>>, 0) EXCEPT !.qlen = GW_MAX_URL_LEN - 9]
      [] id = "url_2048" ->
            [Req(sGET, pHealth, <<>>, 0) EXCEPT !.qlen = GW_MAX_URL_LEN - 8]
      [] id = "key_255" ->
            Req(sGET, pHealth, <<Hdr(Pad(HDR_KEY_SIZE - 1), <<"v">>)>>, 0)
      [] id = "key_256" ->
            Req(sGET, pHealth, <<Hdr(Pad(HDR_KEY_SIZE), <<"v">>)>>, 0)
      [] id = "val_511" ->
            Req(sGET, pHealth, <<Hdr(<<"K">>, Pad(HDR_VALUE_SIZE - 1))>>, 0)
      [] id = "val_512" ->
            Req(sGET, pHealth, <<Hdr(<<"K">>, Pad(HDR_VALUE_SIZE))>>, 0)
      [] id = "hdr_64" ->
            Req(sGET, pHealth,
                Filler(GW_MAX_HEADERS - 1) \o <<Hdr(sConnection, sClose)>>, 0)
      [] id = "hdr_65" ->
            Req(sGET, pHealth,
                Filler(GW_MAX_HEADERS) \o <<Hdr(sConnection, sClose)>>, 0)
      [] id = "body_8192" ->
            Req(sPOST, pHook,
                <<Hdr(sContentLength, <<"8","1","9","2">>)>>, GW_READ_BUF_SIZE)
      [] id = "body_fit" ->
            Req(sPOST, pHook,
                <<Hdr(sContentLength, <<"1","0","4","8","5","1","7">>)>>,
                BodyFit)
      [] id = "body_max" ->
            Req(sPOST, pHook,
                <<Hdr(sContentLength, <<"1","0","4","8","5","7","6">>)>>,
                GW_MAX_BODY_LEN)
      [] id = "body_over" ->
            Req(sPOST, pHook,
                <<Hdr(sContentLength, <<"1","0","4","8","5","7","7">>)>>,
                GW_MAX_BODY_LEN + 1)

\* the length of the URL: path, then '?' and the query when there is one
UrlLen(w) == Len(w.path) + (IF w.qlen >= 0 THEN 1 + w.qlen ELSE 0)

\* the length of the request line without its CRLF ("HTTP/1.1" is 8 bytes)
ReqLineLen(w) ==
    CASE w.line = "ok" -> Len(w.method) + 1 + UrlLen(w) + 1 + 8
      [] w.line = "onespace" -> Len(w.method) + 1 + UrlLen(w)
      [] w.line = "nospace" -> Len(w.method)

\* "key: value" without its CRLF
HdrLineLen(h) == Len(h.key) + 2 + Len(h.value)

RECURSIVE SumHdrLines(_, _)
SumHdrLines(hs, i) ==
    IF i > Len(hs) THEN 0 ELSE HdrLineLen(hs[i]) + 2 + SumHdrLines(hs, i + 1)

\* the bytes up to and including the first CRLF CRLF
HdrSize(w) == ReqLineLen(w) + 2 + SumHdrLines(w.headers, 1) + 2

\* all the bytes of the request
WireSize(w) == HdrSize(w) + w.body


(***************************************************************************)
(* The parsed request (http_request_t) and the connection (connection_t).  *)
(* url and query are kept by their lengths; body is kept as has_body (the  *)
(* pointer is set) and body_len.  The bytes of read_buf are kept as        *)
(*   buf_seq  which request of the connection they are the bytes of, and   *)
(*   buf_wire which entry of the catalogue that request is                 *)
(*   buf_str  strlen(read_buf): the place of the terminating NUL           *)
(* read_len is the field of the code; it differs from buf_str after the    *)
(* keep-alive reset, which clears read_len and leaves the bytes.           *)
(***************************************************************************)
\* memset(&conn->request, 0, sizeof(conn->request)); HTTP_GET is 0
ZeroRequest ==
    [method |-> HTTP_GET, url_len |-> 0, path |-> <<>>, query_len |-> 0,
     version_major |-> 0, version_minor |-> 0,
     headers |-> <<>>, header_count |-> 0,
     has_body |-> FALSE, body_len |-> 0, content_length |-> 0]

connection_create(fd) ==
    [fd |-> fd, state |-> CONN_READING_HEADERS,
     read_cap |-> GW_READ_BUF_SIZE, read_len |-> 0,
     buf_seq |-> 0, buf_wire |-> NONE, buf_str |-> 0,
     request |-> ZeroRequest, keep_alive |-> TRUE, is_websocket |-> FALSE]

parse_method(s) ==
    CASE s = sGET -> HTTP_GET
      [] s = sPOST -> HTTP_POST
      [] s = sPUT -> HTTP_PUT
      [] s = sDELETE -> HTTP_DELETE
      [] s = sOPTIONS -> HTTP_OPTIONS
      [] s = sHEAD -> HTTP_HEAD
      [] OTHER -> HTTP_UNKNOWN

\* the value of the first header whose key is `key` whatever the case, or NULLSTR
RECURSIVE find_header_from(_, _, _)
find_header_from(req, key, i) ==
    IF i > req.header_count THEN NULLSTR
    ELSE IF strcasecmp(req.headers[i].key, key) = 0 THEN req.headers[i].value
    ELSE find_header_from(req, key, i + 1)
find_header(req, key) == find_header_from(req, key, 1)

\* The header loop of http_parse_request: one slot per line, at most
\* GW_MAX_HEADERS of them; a key of 256 bytes or more, a value of 512 bytes
\* or more is not copied and the slot keeps the zero bytes of the cleared
\* request (the empty string); the line still takes its slot.
ParseHeaderLines(lines) ==
    [i \in 1..Min(Len(lines), GW_MAX_HEADERS) |->
        [key |-> IF Len(lines[i].key) < HDR_KEY_SIZE
                 THEN lines[i].key ELSE <<>>,
         value |-> IF Len(lines[i].value) < HDR_VALUE_SIZE
                   THEN lines[i].value ELSE <<>>]]

\* body_available >= content_length, where body_available is the size_t
\* read_len - header_size: below zero it wraps to nearly 2^64, which is
\* above every content length the model holds
BodyAvailable(read_len, header_size, content_length) ==
    IF read_len >= header_size
    THEN read_len - header_size >= content_length
    ELSE TRUE

\* the body is copied out of read_buf: req->body, req->body_len
TakeBody(req) ==
    [req EXCEPT !.has_body = TRUE, !.body_len = req.content_length]

\* The headers branch from the request line on, once "\r\n\r\n" was found.
ParseHeaderBlock(conn, w) ==
    LET req == conn.request IN
    IF w.line = "nospace" THEN [rc |-> -1, conn |-> conn]
    ELSE
    LET r1 == [req EXCEPT !.method = parse_method(w.method)] IN
    IF w.line = "onespace"
    THEN [rc |-> -1, conn |-> [conn EXCEPT !.request = r1]]
    ELSE IF UrlLen(w) >= GW_MAX_URL_LEN
    THEN [rc |-> -1, conn |-> [conn EXCEPT !.request = r1]]
    ELSE
    LET hdrs == ParseHeaderLines(w.headers)
        r2 == [r1 EXCEPT !.url_len = UrlLen(w),
                         !.path = w.path,
                         !.query_len = IF w.qlen >= 0 THEN w.qlen ELSE 0,
                         !.version_major = 1,
                         !.version_minor = 1,
                         !.headers = hdrs,
                         !.header_count = Len(hdrs)]
        cl == find_header(r2, sContentLength)
        r3 == IF cl # NULLSTR THEN [r2 EXCEPT !.content_length = atol(cl)] ELSE r2
        conn_hdr == find_header(r3, sConnection)
        ka == IF conn_hdr # NULLSTR /\ strcasecmp(conn_hdr, sClose) = 0
              THEN FALSE ELSE conn.keep_alive
        header_size == HdrSize(w)
    IN
    IF r3.content_length > 0
    THEN IF BodyAvailable(conn.read_len, header_size, r3.content_length)
         THEN [rc |-> 0,
               conn |-> [conn EXCEPT !.state = CONN_READING_BODY,
                                     !.keep_alive = ka,
                                     !.request = TakeBody(r3)]]
         ELSE [rc |-> 1,
               conn |-> [conn EXCEPT !.state = CONN_READING_BODY,
                                     !.keep_alive = ka,
                                     !.request = r3]]
    ELSE [rc |-> 0, conn |-> [conn EXCEPT !.keep_alive = ka, !.request = r3]]

\* http_parse_request: 0 complete, 1 need more data, -1 error.  w is the
\* wire request whose bytes read_buf holds; strstr finds "\r\n\r\n" when
\* the string in read_buf reaches the end of the header block.
http_parse_request(conn, w) ==
    IF conn.state = CONN_READING_HEADERS
    THEN IF conn.buf_str < HdrSize(w)
         THEN [rc |-> 1, conn |-> conn]
         ELSE ParseHeaderBlock(conn, w)
    ELSE IF conn.state = CONN_READING_BODY
    THEN IF conn.buf_str < HdrSize(w)
         THEN [rc |-> -1, conn |-> conn]
         ELSE IF BodyAvailable(conn.read_len, HdrSize(w),
                               conn.request.content_length)
         THEN [rc |-> 0, conn |-> [conn EXCEPT !.request = TakeBody(@)]]
         ELSE [rc |-> 1, conn |-> conn]
    ELSE [rc |-> -1, conn |-> conn]

\* connection_read with the bound on the buffer four times as large
RECURSIVE connection_read_loop_unbounded(_, _, _, _)
connection_read_loop_unbounded(conn, rcvq, fin, cur) ==
    IF /\ conn.read_len + 1 >= conn.read_cap
       /\ conn.read_cap * 2 > 4 * (GW_MAX_BODY_LEN + GW_READ_BUF_SIZE)
    THEN [rc |-> -1, why |-> "too_large", conn |-> conn, rcvq |-> rcvq]
    ELSE
    LET c1 == IF conn.read_len + 1 >= conn.read_cap
              THEN [conn EXCEPT !.read_cap = @ * 2] ELSE conn
        room == c1.read_cap - c1.read_len - 1
        n == IF rcvq > 0 THEN Min(rcvq, room) ELSE IF fin THEN 0 ELSE -1
    IN
    IF n > 0
    THEN connection_read_loop_unbounded(
             [c1 EXCEPT !.read_len = @ + n,
                        !.buf_str = c1.read_len + n,
                        !.buf_seq = IF c1.read_len = 0 THEN cur.seq ELSE @,
                        !.buf_wire = IF c1.read_len = 0 THEN cur.id ELSE @],
             rcvq - n, fin, cur)
    ELSE IF n = 0
    THEN [rc |-> -1, why |-> "eof", conn |-> c1, rcvq |-> rcvq]
    ELSE [rc |-> 0, why |-> "eagain", conn |-> c1, rcvq |-> rcvq]

\* connection_read: drains the socket into read_buf.  rcvq is the number
\* of bytes the kernel holds for the socket, fin whether the peer has shut
\* its side down, cur the request the bytes belong to.  read(2) gives
\* min(rcvq, room) bytes, 0 at end of stream, -1/EAGAIN on an empty queue.
RECURSIVE connection_read_loop(_, _, _, _)
connection_read_loop(conn, rcvq, fin, cur) ==
    IF /\ conn.read_len + 1 >= conn.read_cap
       /\ conn.read_cap * 2 > GW_MAX_BODY_LEN + GW_READ_BUF_SIZE
    THEN [rc |-> -1, why |-> "too_large", conn |-> conn, rcvq |-> rcvq]
    ELSE
    LET c1 == IF conn.read_len + 1 >= conn.read_cap
              THEN [conn EXCEPT !.read_cap = @ * 2] ELSE conn
        room == c1.read_cap - c1.read_len - 1
        n == IF rcvq > 0 THEN Min(rcvq, room) ELSE IF fin THEN 0 ELSE -1
    IN
    IF n > 0
    THEN connection_read_loop(
             [c1 EXCEPT !.read_len = @ + n,
                        !.buf_str = c1.read_len + n,
                        !.buf_seq = IF c1.read_len = 0 THEN cur.seq ELSE @,
                        !.buf_wire = IF c1.read_len = 0 THEN cur.id ELSE @],
             rcvq - n, fin, cur)
    ELSE IF n = 0
    THEN [rc |-> -1, why |-> "eof", conn |-> c1, rcvq |-> rcvq]
    ELSE [rc |-> 0, why |-> "eagain", conn |-> c1, rcvq |-> rcvq]

connection_read(conn, rcvq, fin, cur) ==
    connection_read_loop(conn, rcvq, fin, cur)


(***************************************************************************)
(* The response builder (http_response_build_t) and the writer.            *)
(***************************************************************************)
http_response_init ==
    [status_code |-> 200, status_text |-> "OK",
     headers |-> <<>>, headers_len |-> 0, body |-> "", body_len |-> 0]

http_response_set_status(resp, code, text) ==
    [resp EXCEPT !.status_code = code, !.status_text = text]

\* "%s: %s\r\n" put at the front of headers_buf
http_response_add_header_front(resp, key, value) ==
    [resp EXCEPT !.headers = <<<<key, value>>>> \o @,
                 !.headers_len = @ + Len(key) + Len(value) + 4]

\* "%s: %s\r\n" appended to headers_buf
http_response_add_header(resp, key, value) ==
    [resp EXCEPT !.headers = Append(@, <<key, value>>),
                 !.headers_len = @ + Len(key) + Len(value) + 4]

http_response_set_body(resp, body, len) ==
    [resp EXCEPT !.body = body, !.body_len = len]

http_response_set_json(resp, json) ==
    http_response_set_body(
        http_response_add_header(resp, "Content-Type", "application/json"),
        json, Len(json))

\* the number of characters "%d" / "%zu" prints for n >= 0
RECURSIVE NumDigits(_)
NumDigits(n) == IF n < 10 THEN 1 ELSE 1 + NumDigits(n \div 10)

\* the size of the buffer http_response_send builds: status line, headers,
\* Content-Length line, blank line, body
ResponseSize(resp) ==
    LET sl_len == Len("HTTP/1.1 ") + NumDigits(resp.status_code) + 1
                  + Len(resp.status_text) + 2
        cl_len == Len("Content-Length: ") + NumDigits(resp.body_len) + 2
    IN sl_len + resp.headers_len + cl_len + 2 + resp.body_len

\* headers_buf: a line "%s: %s\r\n" for each header added, in order
RECURSIVE HeadersBuf(_)
HeadersBuf(hs) ==
    IF hs = <<>> THEN ""
    ELSE hs[1][1] \o ": " \o hs[1][2] \o "\r\n" \o HeadersBuf(Tail(hs))

\* the buffer http_response_send builds, byte for byte
ResponseBytes(resp) ==
    LET status_line == "HTTP/1.1 " \o ToString(resp.status_code) \o " "
                       \o resp.status_text \o "\r\n"
        cl_header == "Content-Length: " \o ToString(resp.body_len) \o "\r\n"
    IN status_line
       \o (IF resp.headers_len > 0 THEN HeadersBuf(resp.headers) ELSE "")
       \o cl_header \o "\r\n"
       \o (IF resp.body_len > 0 THEN resp.body ELSE "")

\* write(2) on the non-blocking socket: the kernel takes what fits in the
\* `room` its send buffer has left, and answers -1 once there is none, with
\* errno `err` (EAGAIN: the buffer is full; EPIPE: the peer is gone)
write(len, room) == IF room > 0 THEN Min(len, room) ELSE -1

\* the write loop of http_response_send
RECURSIVE write_loop(_, _, _, _)
write_loop(written, pos, room, err) ==
    IF written < pos
    THEN LET n == write(pos - written, room) IN
         IF n <= 0
         THEN [rc |-> OC_ERR_IO, written |-> written, total |-> pos,
               errno |-> err]
         ELSE write_loop(written + n, pos, room - n, err)
    ELSE [rc |-> OC_OK, written |-> written, total |-> pos, errno |-> "none"]

http_response_send(resp, room, err) ==
    write_loop(0, ResponseSize(resp), room, err)

(***************************************************************************)
(* The WebSocket upgrade, ws_handle_upgrade(conn, req).  Of the connection *)
(* it reads fd and writes is_websocket and state.  The accept key is the   *)
(* base64 text of a SHA-1 digest: 28 characters whatever the key.          *)
(***************************************************************************)

\* strlen of base64(SHA1(...)): 20 bytes give 28 characters
AcceptKeyLen == 28

\* ws_find_header: as find_header
RECURSIVE ws_find_header_from(_, _, _)
ws_find_header_from(r, key, i) ==
    IF i > r.header_count THEN NULLSTR
    ELSE IF strcasecmp(r.headers[i].key, key) = 0 THEN r.headers[i].value
    ELSE ws_find_header_from(r, key, i + 1)
ws_find_header(r, key) == ws_find_header_from(r, key, 1)

\* the length snprintf gives the 101 response
UpgradeResponseLen ==
    Len("HTTP/1.1 101 Switching Protocols\r\n")
    + Len("Upgrade: websocket\r\n")
    + Len("Connection: Upgrade\r\n")
    + Len("Sec-WebSocket-Accept: ") + AcceptKeyLen + Len("\r\n")
    + Len("\r\n")

\* ws_handle_upgrade; room is what the socket takes of the one write
ws_handle_upgrade(conn, r, room) ==
    LET ws_key == ws_find_header(r, sSecWebSocketKey) IN
    IF ws_key = NULLSTR
    THEN [rc |-> -1, conn |-> conn, n |-> 0, len |-> 0]
    ELSE LET len == UpgradeResponseLen
             n == write(len, room)
         IN IF n # len
            THEN [rc |-> -1, conn |-> conn, n |-> n, len |-> len]
            ELSE [rc |-> 0,
                  conn |-> [conn EXCEPT !.is_websocket = TRUE,
                                        !.state = CONN_WEBSOCKET],
                  n |-> n, len |-> len]


(***************************************************************************)
(* The route table main() registers, the handlers and the router.          *)
(***************************************************************************)
Routes ==
    << [method |-> HTTP_GET, pattern |-> pHealth, handler |-> "handler_health"],
       [method |-> HTTP_POST, pattern |-> pHook, handler |-> "handler_webhook"],
       [method |-> HTTP_POST, pattern |-> pChat, handler |-> "handler_chat"] >>

route_matches(route, method, path) ==
    IF route.method # method THEN FALSE
    ELSE IF strcmp(route.pattern, path) = 0 THEN TRUE
    ELSE IF Len(route.pattern) > 1 /\ route.pattern[Len(route.pattern)] = "*"
    THEN strncmp(route.pattern, path, Len(route.pattern) - 1) = 0
    ELSE FALSE

\* cJSON_PrintUnformatted of the object handler_health builds (uptime is
\* taken as 0 seconds)
HealthBody(total, active) ==
    "{\"status\":\"ok\",\"version\":\"0.1.0\",\"uptime_seconds\":0,"
    \o "\"total_requests\":" \o ToString(total)
    \o ",\"active_connections\":" \o ToString(active) \o "}"

handler_health(gw, resp) ==
    http_response_set_json(resp,
        HealthBody(gw.total_requests, gw.active_connections))

\* handler_webhook: an empty body is refused.  A body that is there is
\* taken to be JSON with a 'message', and an API key to be configured; `up`
\* is the result of the upstream call (http_stream_post), and the 200 body
\* stands for the reply the upstream gave.
\* the text of a sequence of characters
RECURSIVE Str(_)
Str(cs) == IF cs = <<>> THEN "" ELSE cs[1] \o Str(Tail(cs))

sClaude == <<"c","l","a","u","d","e">>
sGpt == <<"g","p","t">>

\* chat_collect_t; buf is <<>> (NULL) until chat_collect_text has run
ZeroCollect == [buf |-> <<>>, len |-> 0, input_tokens |-> 0, output_tokens |-> 0]

\* chat_collect_text: the delta is appended (realloc succeeds)
chat_collect_text(collect, text) ==
    [collect EXCEPT !.buf = IF @ = <<>> THEN <<text>> ELSE <<@[1] \o text>>,
                    !.len = @ + Len(text)]

chat_collect_done(collect, input_tokens, output_tokens) ==
    [collect EXCEPT !.input_tokens = input_tokens,
                    !.output_tokens = output_tokens]

\* http_stream_post with the outcome `out` of the upstream call: on_text for
\* each content delta, on_done when the stream said it was done, and the
\* return code
RECURSIVE stream_deltas(_, _)
stream_deltas(collect, deltas) ==
    IF deltas = <<>> THEN collect
    ELSE stream_deltas(chat_collect_text(collect, Head(deltas)), Tail(deltas))

http_stream_post(out, collect) ==
    LET c == stream_deltas(collect, out.deltas) IN
    [rc |-> out.rc,
     collect |-> IF out.done
                 THEN chat_collect_done(c, out.input_tokens, out.output_tokens)
                 ELSE c]

\* cJSON values: a string [t |-> "s", s], a number [t |-> "n", n], an object
\* [t |-> "o", o] with o the sequence of its items [k, v] in the order they
\* were added, an array [t |-> "a", a]
JStr(s) == [t |-> "s", s |-> s]
JNum(n) == [t |-> "n", n |-> n]
JObj(items) == [t |-> "o", o |-> items]
JArr(elems) == [t |-> "a", a |-> elems]

\* cJSON_PrintUnformatted (strings without characters that JSON escapes)
RECURSIVE JsonPrint(_), JsonItems(_, _), JsonElems(_, _)
JsonPrint(v) ==
    CASE v.t = "s" -> "\"" \o v.s \o "\""
      [] v.t = "n" -> ToString(v.n)
      [] v.t = "o" -> "{" \o JsonItems(v.o, 1) \o "}"
      [] v.t = "a" -> "[" \o JsonElems(v.a, 1) \o "]"
JsonItems(items, i) ==
    IF i > Len(items) THEN ""
    ELSE (IF i > 1 THEN "," ELSE "")
         \o "\"" \o items[i].k \o "\":" \o JsonPrint(items[i].v)
         \o JsonItems(items, i + 1)
JsonElems(elems, i) ==
    IF i > Len(elems) THEN ""
    ELSE (IF i > 1 THEN "," ELSE "") \o JsonPrint(elems[i])
         \o JsonElems(elems, i + 1)

\* some object inside v, v included, has an item named key
RECURSIVE JsonHasDeep(_, _)
JsonHasDeep(v, key) ==
    CASE v.t = "o" -> \E i \in 1..Len(v.o) :
                          v.o[i].k = key \/ JsonHasDeep(v.o[i].v, key)
      [] v.t = "a" -> \E i \in 1..Len(v.a) : JsonHasDeep(v.a[i], key)
      [] OTHER -> FALSE

\* cJSON_GetObjectItemCaseSensitive(v, key) is not NULL
JsonHas(v, key) == v.t = "o" /\ \E i \in 1..Len(v.o) : v.o[i].k = key
\* the item of the object v under key
JsonGet(v, key) ==
    v.o[CHOOSE i \in 1..Len(v.o) :
            v.o[i].k = key /\ \A j \in 1..(i - 1) : v.o[j].k # key].v

\* the chat.completion object handler_chat builds
ChatEnvelopeJson(model, collect) ==
    JObj(<<[k |-> "id", v |-> JStr("chatcmpl-openclaw")],
           [k |-> "object", v |-> JStr("chat.completion")],
           [k |-> "model", v |-> JStr(model)],
           [k |-> "choices", v |-> JArr(<<
               JObj(<<[k |-> "index", v |-> JNum(0)],
                      [k |-> "message", v |->
                          JObj(<<[k |-> "role", v |-> JStr("assistant")],
                                 [k |-> "content", v |-> JStr(collect.buf[1])]>>)],
                      [k |-> "finish_reason", v |-> JStr("stop")]>>)>>)],
           [k |-> "usage", v |->
               JObj(<<[k |-> "prompt_tokens", v |-> JNum(collect.input_tokens)],
                      [k |-> "completion_tokens", v |-> JNum(collect.output_tokens)],
                      [k |-> "total_tokens", v |->
                          JNum(collect.input_tokens + collect.output_tokens)]>>)]>>)

ChatEnvelope(model, collect) == JsonPrint(ChatEnvelopeJson(model, collect))

\* an error body of handler_chat in the shape handler_webhook uses
ChatErrorFlat(message, type) == JObj(<<[k |-> "error", v |-> JStr(message)]>>)

\* the error object of handler_chat
ChatErrorJson(message, type) ==
    JObj(<<[k |-> "error", v |->
              JObj(<<[k |-> "message", v |-> JStr(message)],
                     [k |-> "type", v |-> JStr(type)]>>)]>>)

ChatError(message, type) == JsonPrint(ChatErrorJson(message, type))

\* the error object of handler_webhook
HookErrorJson(message) == JObj(<<[k |-> "error", v |-> JStr(message)]>>)

\* the content of the last message with role "user" and a content, as a
\* one-element sequence; <<>> when there is none
RECURSIVE last_user_msg(_, _)
last_user_msg(messages, user_msg) ==
    IF messages = <<>> THEN user_msg
    ELSE LET m == Head(messages) IN
         last_user_msg(Tail(messages),
                       IF m.role = "user" /\ m.content # <<>> THEN m.content
                       ELSE user_msg)

\* the provider handler_chat resolves
chat_provider(body, cfg) ==
    IF body.model # NULLSTR /\ strncmp(body.model, sClaude, 6) = 0
    THEN "PROVIDER_ANTHROPIC"
    ELSE IF body.model # NULLSTR /\ strncmp(body.model, sGpt, 3) = 0
    THEN "PROVIDER_OPENAI"
    ELSE cfg.default_provider

\* the model handler_chat resolves
chat_model(body, cfg) ==
    IF body.model # NULLSTR THEN Str(body.model)
    ELSE IF chat_provider(body, cfg) = "PROVIDER_ANTHROPIC"
    THEN cfg.anthropic_model
    ELSE cfg.openai_model

\* the content of the last message with role "system" and a content
RECURSIVE last_system_msg(_, _)
last_system_msg(messages, system_msg) ==
    IF messages = <<>> THEN system_msg
    ELSE LET m == Head(messages) IN
         last_system_msg(Tail(messages),
                         IF m.role = "system" /\ m.content # <<>> THEN m.content
                         ELSE system_msg)

\* the system prompt handler_chat forwards
chat_system(body, cfg) ==
    IF last_system_msg(body.messages, <<>>) = <<>> THEN cfg.system_prompt
    ELSE last_system_msg(body.messages, <<>>)[1]

\* auth_resolve: the key configured for the provider, <<>> when there is none
auth_resolve(cfg, provider) ==
    IF cfg.api_key[provider] THEN <<"key:" \o provider>> ELSE <<>>

ANTHROPIC_URL == "https://api.anthropic.com/v1/messages"
OPENAI_URL == "https://api.openai.com/v1/chat/completions"

\* an upstream call that always reads the stream in the Anthropic dialect
UpstreamPostOneDialect(provider, api_key, model, system, user) ==
    [url |-> IF provider = "PROVIDER_ANTHROPIC" THEN ANTHROPIC_URL ELSE OPENAI_URL,
     api_key |-> api_key,
     ai_body |-> [builder |-> IF provider = "PROVIDER_ANTHROPIC"
                              THEN "json_build_anthropic_request"
                              ELSE "json_build_openai_request",
                  model |-> model, system |-> system, user |-> user],
     sctx_provider |-> "PROVIDER_ANTHROPIC",
     provider |-> provider]

\* the arguments of the one http_stream_post call of a handler: the URL, the
\* key, the request body (which builder made it, from what) and the dialect
\* stream_ctx_init and http_stream_post were given
UpstreamPost(provider, api_key, model, system, user) ==
    [url |-> IF provider = "PROVIDER_ANTHROPIC" THEN ANTHROPIC_URL ELSE OPENAI_URL,
     api_key |-> api_key,
     ai_body |-> [builder |-> IF provider = "PROVIDER_ANTHROPIC"
                              THEN "json_build_anthropic_request"
                              ELSE "json_build_openai_request",
                  model |-> model, system |-> system, user |-> user],
     sctx_provider |-> provider,
     provider |-> provider]

\* what a handler leaves behind: the response, the JSON value it printed as
\* the body, and the upstream POSTs it made
HandlerReply(resp, status, reason, json, posts) ==
    [resp |-> http_response_set_json(
                  IF status = 200 THEN resp
                  ELSE http_response_set_status(resp, status, reason),
                  JsonPrint(json)),
     json |-> json,
     posts |-> posts]

\* a handler_chat that posts again when the upstream call failed
chat_forward_retry(resp, model, post, out) ==
    LET p == http_stream_post(out, ZeroCollect) IN
    IF p.rc = OC_OK /\ p.collect.buf # <<>>
    THEN HandlerReply(resp, 200, "OK", ChatEnvelopeJson(model, p.collect), <<post>>)
    ELSE HandlerReply(resp, 502, "Bad Gateway",
             ChatErrorJson("AI API request failed", "server_error"),
             <<post, post>>)

\* the end of handler_chat: the one upstream call with the arguments `post`
\* and the response built from what it collected
chat_forward(resp, model, post, out) ==
    LET p == http_stream_post(out, ZeroCollect) IN
    IF p.rc = OC_OK /\ p.collect.buf # <<>>
    THEN HandlerReply(resp, 200, "OK", ChatEnvelopeJson(model, p.collect), <<post>>)
    ELSE HandlerReply(resp, 502, "Bad Gateway",
             ChatErrorJson("AI API request failed", "server_error"), <<post>>)

\* handler_chat on the request req whose body cJSON_Parse reads as `body`
\* (valid: it is JSON; messages; model), under the configuration cfg and
\* with the outcome `out` of the upstream call
handler_chat_run(req, body, cfg, resp, out) ==
    IF ~req.has_body \/ req.body_len = 0
    THEN HandlerReply(resp, 400, "Bad Request",
             ChatErrorJson("Empty body", "invalid_request_error"), <<>>)
    ELSE IF ~body.valid
    THEN HandlerReply(resp, 400, "Bad Request",
             ChatErrorJson("Invalid JSON", "invalid_request_error"), <<>>)
    ELSE IF body.messages = <<>>
    THEN HandlerReply(resp, 400, "Bad Request",
             ChatErrorJson("Missing messages array", "invalid_request_error"), <<>>)
    ELSE IF last_user_msg(body.messages, <<>>) = <<>>
    THEN HandlerReply(resp, 400, "Bad Request",
             ChatErrorJson("No user message found", "invalid_request_error"), <<>>)
    ELSE LET provider == chat_provider(body, cfg)
             api_key == auth_resolve(cfg, provider) IN
         IF api_key = <<>>
         THEN HandlerReply(resp, 500, "Internal Server Error",
                  ChatErrorJson("No API key configured", "server_error"), <<>>)
         ELSE chat_forward(resp, chat_model(body, cfg),
                  UpstreamPost(provider, api_key[1], chat_model(body, cfg),
                      chat_system(body, cfg),
                      last_user_msg(body.messages, <<>>)[1]),
                  out)

handler_chat_on(req, body, cfg, resp, out) ==
    handler_chat_run(req, body, cfg, resp, out).resp

\* the end of handler_webhook: the one upstream call with the arguments
\* `post` and the response built from what it collected
hook_forward(resp, session_id, model, post, out) ==
    LET p == http_stream_post(out, ZeroCollect) IN
    IF p.rc = OC_OK /\ p.collect.buf # <<>>
    THEN HandlerReply(resp, 200, "OK",
             JObj(<<[k |-> "response", v |-> JStr(p.collect.buf[1])]>>
                  \o (IF session_id = <<>> THEN <<>>
                      ELSE <<[k |-> "session_id", v |-> JStr(session_id[1])]>>)
                  \o <<[k |-> "model", v |-> JStr(model)]>>),
             <<post>>)
    ELSE HandlerReply(resp, 502, "Bad Gateway",
             HookErrorJson("AI API request failed"), <<post>>)

\* handler_webhook on the request req whose body cJSON_Parse reads as `body`
\* (valid: it is JSON; message and session_id: <<>> when json_get_str gives
\* NULL), under the configuration cfg and with the outcome `out` of the
\* upstream call
handler_webhook_run(req, body, cfg, resp, out) ==
    IF ~req.has_body \/ req.body_len = 0
    THEN HandlerReply(resp, 400, "Bad Request", HookErrorJson("Empty body"), <<>>)
    ELSE IF ~body.valid
    THEN HandlerReply(resp, 400, "Bad Request", HookErrorJson("Invalid JSON"), <<>>)
    ELSE IF body.message = <<>> \/ body.message[1] = ""
    THEN HandlerReply(resp, 400, "Bad Request",
             HookErrorJson("Missing 'message' field"), <<>>)
    ELSE LET provider == cfg.default_provider
             api_key == auth_resolve(cfg, provider)
             model == IF provider = "PROVIDER_ANTHROPIC"
                      THEN cfg.anthropic_model ELSE cfg.openai_model IN
         IF api_key = <<>>
         THEN HandlerReply(resp, 500, "Internal Server Error",
                  HookErrorJson("No API key configured"), <<>>)
         ELSE hook_forward(resp, body.session_id, model,
                  UpstreamPost(provider, api_key[1], model,
                      cfg.system_prompt, body.message[1]),
                  out)

\* the configuration and the chat body the reactor's requests stand for
DefaultCfg ==
    [default_provider |-> "PROVIDER_ANTHROPIC",
     anthropic_model |-> "claude-m", openai_model |-> "gpt-m",
     system_prompt |-> "You are Kelp",
     api_key |-> [p \in {"PROVIDER_ANTHROPIC", "PROVIDER_OPENAI"} |-> TRUE]]
DefaultChatBody ==
    [valid |-> TRUE, model |-> NULLSTR,
     messages |-> <<[role |-> "user", content |-> <<"ping">>]>>]
DefaultHookBody ==
    [valid |-> TRUE, message |-> <<"ping">>, session_id |-> <<>>]

\* the outcome of the upstream call for `up`
UpstreamOutcome(up) ==
    IF up = "ok"
    THEN [rc |-> OC_OK, deltas |-> <<"pong">>, done |-> TRUE,
          input_tokens |-> 1, output_tokens |-> 1]
    ELSE [rc |-> OC_ERR_IO, deltas |-> <<>>, done |-> FALSE,
          input_tokens |-> 0, output_tokens |-> 0]

\* handler_webhook as the reactor calls it
handler_webhook(req, resp, up) ==
    handler_webhook_run(req, DefaultHookBody, DefaultCfg, resp,
                        UpstreamOutcome(up)).resp

\* handler_chat as the reactor calls it
handler_chat(req, resp, up) ==
    handler_chat_on(req, DefaultChatBody, DefaultCfg, resp, UpstreamOutcome(up))

CallHandler(name, gw, req, resp, up) ==
    CASE name = "handler_health" -> handler_health(gw, resp)
      [] name = "handler_webhook" -> handler_webhook(req, resp, up)
      [] name = "handler_chat" -> handler_chat(req, resp, up)
      [] name = "handler_ws" -> resp

\* the handler of GET /ws: it upgrades the connection and adds nothing to
\* the response
handler_ws(conn, req, room) == ws_handle_upgrade(conn, req, room).conn

\* the route table with the WebSocket route after the three of main()
WsRoutes ==
    Append(Routes, [method |-> HTTP_GET, pattern |-> pWs, handler |-> "handler_ws"])

\* the connection after gw->routes[i].handler(conn, req, &resp, ctx): the
\* handlers of /health, /hooks/webchat and /v1/chat/completions leave it
\* alone
ConnAfterHandler(name, conn, room) ==
    IF name = "handler_ws" THEN handler_ws(conn, conn.request, room) ELSE conn

\* the index of the last route that matches, or 0
RECURSIVE LastMatch(_, _, _)
LastMatch(routes, req, i) ==
    IF i > Len(routes) THEN 0
    ELSE LET j == LastMatch(routes, req, i + 1) IN
         IF j > 0 THEN j
         ELSE IF route_matches(routes[i], req.method, req.path) THEN i
         ELSE 0

\* the index of the first route that matches, or 0
RECURSIVE FirstMatch(_, _, _)
FirstMatch(routes, req, i) ==
    IF i > Len(routes) THEN 0
    ELSE IF route_matches(routes[i], req.method, req.path) THEN i
    ELSE FirstMatch(routes, req, i + 1)

\* the route loop of router_dispatch and the 404 after it: the response
\* built and the handler called (NONE when none was)
RouteResponse(gw, req, up) ==
    LET i == FirstMatch(gw.routes, req, 1) IN
    IF i > 0
    THEN [handler |-> gw.routes[i].handler,
          resp |-> CallHandler(gw.routes[i].handler, gw, req,
                       http_response_add_header(http_response_init,
                           "Access-Control-Allow-Origin", "*"), up)]
    ELSE [handler |-> NONE,
          resp |-> http_response_set_json(
                       http_response_set_status(http_response_init,
                                                404, "Not Found"),
                       "{\"error\":\"Not Found\"}")]

\* router_dispatch without its CORS preflight branch
RouterNoPreflight(gw, req, up) == RouteResponse(gw, req, up)

\* router_dispatch: the response it builds and the handler it called
RouterResponse(gw, req, up) ==
    IF req.method = HTTP_OPTIONS
    THEN [handler |-> NONE,
          resp |-> http_response_add_header(
                     http_response_add_header(
                       http_response_add_header(
                         http_response_set_status(http_response_init,
                                                  204, "No Content"),
                         "Access-Control-Allow-Origin", "*"),
                       "Access-Control-Allow-Methods", "GET, POST, OPTIONS"),
                     "Access-Control-Allow-Headers",
                     "Content-Type, Authorization")]
    ELSE RouteResponse(gw, req, up)

\* router_dispatch sends the response it built; the result of
\* http_response_send is dropped
router_dispatch(gw, req, up, room, err) ==
    LET r == RouterResponse(gw, req, up) IN
    [handler |-> r.handler, resp |-> r.resp,
     send |-> http_response_send(r.resp, room, err)]


(***************************************************************************)
(* The reactor.                                                            *)
(*   connections         gw->connections, indexed by fd (NULL: no entry)   *)
(*   active_connections  gw->active_connections                            *)
(*   total_requests      gw->total_requests                                *)
(*   parsed_requests     the requests of the clients that http_parse_request *)
(*                       has completed so far (not in the code)            *)
(*   auth_token          cfg->auth_token (the empty string: none)          *)
(*   gw_routes           gw->routes, the route table                       *)
(*   max_fd              gw->max_fd, the size of gw->connections           *)
(*   socks               per fd, the kernel's and the peer's side:         *)
(*       open    the descriptor is open in the gateway                     *)
(*       seq     how many requests the client has started to send          *)
(*       cur     the last of them (an entry of the catalogue)              *)
(*       sent    the bytes of it the client has sent                       *)
(*       rcvq    the bytes the kernel holds, not yet read                  *)
(*       fin     the client has shut down its sending side                 *)
(*       out     the last response written to the socket: the request it   *)
(*               answers, the bytes written and the size it has            *)
(*   backlog             connections completed and not yet accepted        *)
(*   ev                  what the reactor did in the step that led to the  *)
(*                       state (NoEvent after a step of a client)          *)
(*   catalog             the requests the clients of this run send         *)
(*   quota               requests and data-less events left to this run    *)
(* The bearer check (auth_gateway_check), taken alone:                     *)
(*   req                 the request it is given (its headers)             *)
(*   expected_token      the token it is given (NULLSTR: a null pointer)   *)
(*   auth_called         the call has been made                            *)
(*   auth_rc             what it returned (NONE until then)                *)
(*   req_in              the request as it was when the call was made      *)
(* The life of the process (main, signal_handler, epoll_server_run):       *)
(*   pc                  where main() is                                   *)
(*   installed           setup_signals has installed signal_handler        *)
(*   g_gateway           the static pointer is set                         *)
(*   running             gw->running                                       *)
(*   stop_requested      SIGINT or SIGTERM has arrived since the handlers  *)
(*                       were installed and g_gateway was set              *)
(*   signals             the signals delivered so far                      *)
(*   waits               the epoll_wait calls that have returned           *)
(*   start_rc            what gateway_start returned, as a sequence of one *)
(*                       value (empty: it has not returned)                *)
(* The functions that are studied one call at a time (the WebSocket        *)
(* functions, the router, the response builder, the chat handler):         *)
(*   call                the function, its arguments and the objects it    *)
(*                       works on                                          *)
(*   ret                 what it returned and what it wrote (done: FALSE   *)
(*                       until it has returned)                            *)
(***************************************************************************)
VARIABLES connections, active_connections, total_requests, auth_token,
          gw_routes, max_fd, socks, backlog, ev, catalog, quota, parsed_requests,
          req, expected_token, auth_called, auth_rc, req_in,
          pc, installed, g_gateway, running, stop_requested, signals, waits,
          start_rc,
          call, ret,
          db, now, tool_ctx, notify,
          g_chat, workers,
          ring_buf, ring_head, ring_tail, ring_lock, procs, ring_log

rvars == <<connections, active_connections, total_requests, auth_token,
           gw_routes, max_fd, socks, backlog, ev, catalog, quota, parsed_requests>>
avars == <<req, expected_token, auth_called, auth_rc, req_in>>
lvars == <<pc, installed, g_gateway, running, stop_requested, signals, waits,
           start_rc, notify>>
svars == <<db, now, tool_ctx>>
dvars == <<g_chat, workers>>
kvars == <<ring_buf, ring_head, ring_tail, ring_lock, procs, ring_log>>
fvars == <<call, ret, svars, dvars, kvars>>

Fds == 1..MaxFd

\* the requests of the reactor runs
ReactorIds == {"health", "health_close", "health_auth", "hook5", "badline"}

NoOut == [seq |-> 0, written |-> 0, total |-> 0]

FreeSock ==
    [open |-> FALSE, seq |-> 0, cur |-> NONE, sent |-> 0, rcvq |-> 0,
     fin |-> FALSE, out |-> NoOut]

\* ev: kind "none", "accept", "data" (handle_client_data) or "hup"; for a
\* data event the bytes read and the result of connection_read, whether
\* http_parse_request was called, on which request (seq, wire), from which
\* state and with what result, whether router_dispatch was called, the
\* handler it called, the status, the keep_alive flag, the result of
\* http_response_send, active_connections as it was before the event, and
\* the response written before on the connection, and the state the
\* keep-alive reset found the connection in (NONE: no reset)
NoEvent ==
    [kind |-> "none", fd |-> 0, nread |-> 0, read_rc |-> 0, read_why |-> NONE,
     parsed |-> FALSE, parse_rc |-> 0, seq |-> 0, wire |-> NONE,
     pre_state |-> NONE, dispatched |-> FALSE, handler |-> NONE, status |-> 0,
     keep_alive |-> TRUE, body_len |-> 0, pre_active |-> 0,
     send_rc |-> 0, send_errno |-> "none", written |-> 0, total |-> 0,
     prev |-> NoOut, body |-> "", reset_from |-> NONE]

\* gateway_create, and the token of the configuration
InitReactor ==
    /\ connections = [fd \in Fds |-> NULL]
    /\ active_connections = 0
    /\ total_requests = 0
    /\ parsed_requests = 0
    /\ auth_token \in {<<>>, sTok}
    /\ gw_routes = Routes
    /\ max_fd = GW_INITIAL_MAX_FD
    /\ socks = [fd \in Fds |-> FreeSock]
    /\ backlog = 0
    /\ ev = NoEvent

\* what the handlers read of the gateway context
Gw == [routes |-> gw_routes, total_requests |-> total_requests,
       active_connections |-> active_connections]

\* a client completes a connection; it waits in the listen queue
ClientConnect ==
    /\ backlog + Cardinality({fd \in Fds : socks[fd].open}) < MaxFd
    /\ backlog' = backlog + 1
    /\ ev' = NoEvent
    /\ UNCHANGED <<avars, lvars, fvars, connections, active_connections, total_requests, parsed_requests,
                   auth_token, gw_routes, max_fd, socks, catalog, quota>>

\* the descriptor number of fd: the process holds other descriptors, and
\* the clients' are the ones around the initial size of the table
Desc(fd) == GW_INITIAL_MAX_FD - 2 + fd

\* the accept loop of accept_connections from the i-th pending connection
\* on.  g is [connections, active, max_fd, open]; alloc[i] tells whether
\* the allocations for the i-th connection succeed (connection_create and,
\* when the table has to grow, realloc); when one fails the descriptor is
\* closed and the loop goes on.  accept(2) hands out the lowest free
\* descriptor.
\* the accept loop counting a connection before its allocations are known
\* to have succeeded
RECURSIVE accept_loop_counting(_, _, _)
accept_loop_counting(g, alloc, i) ==
    IF i > Len(alloc) THEN g
    ELSE LET free == {fd \in Fds : fd \notin g.open}
             client_fd == CHOOSE fd \in free : \A o \in free : fd <= o
         IN
         IF ~alloc[i]
         THEN accept_loop_counting([g EXCEPT !.active = @ + 1], alloc, i + 1)
         ELSE accept_loop_counting(
                [connections |-> [g.connections EXCEPT
                                    ![client_fd] = connection_create(client_fd)],
                 active |-> g.active + 1,
                 max_fd |-> IF Desc(client_fd) >= g.max_fd
                            THEN Desc(client_fd) + GW_FD_GROWTH
                            ELSE g.max_fd,
                 open |-> g.open \cup {client_fd}],
                alloc, i + 1)

RECURSIVE accept_loop(_, _, _)
accept_loop(g, alloc, i) ==
    IF i > Len(alloc) THEN g
    ELSE LET free == {fd \in Fds : fd \notin g.open}
             client_fd == CHOOSE fd \in free : \A o \in free : fd <= o
         IN
         IF ~alloc[i] THEN accept_loop(g, alloc, i + 1)
         ELSE accept_loop(
                [connections |-> [g.connections EXCEPT
                                    ![client_fd] = connection_create(client_fd)],
                 active |-> g.active + 1,
                 max_fd |-> IF Desc(client_fd) >= g.max_fd
                            THEN Desc(client_fd) + GW_FD_GROWTH
                            ELSE g.max_fd,
                 open |-> g.open \cup {client_fd}],
                alloc, i + 1)

\* accept_connections: the listen fd is readable; accept until EAGAIN
accept_connections ==
    /\ backlog > 0
    /\ \E alloc \in [1..backlog -> BOOLEAN] :
       \E g \in {accept_loop([connections |-> connections,
                              active |-> active_connections,
                              max_fd |-> max_fd,
                              open |-> {fd \in Fds : socks[fd].open}],
                             alloc, 1)} :
          /\ connections' = g.connections
          /\ active_connections' = g.active
          /\ max_fd' = g.max_fd
          /\ socks' = [fd \in Fds |->
                 IF fd \in g.open /\ ~socks[fd].open
                 THEN [FreeSock EXCEPT !.open = TRUE] ELSE socks[fd]]
          /\ ev' = [NoEvent EXCEPT !.kind = "accept"]
    /\ backlog' = 0
    /\ UNCHANGED <<avars, lvars, fvars, total_requests, parsed_requests, auth_token, gw_routes, catalog, quota>>

\* the request whose bytes the client is sending
CurWire(s) == Wire(s.cur)

\* where a client may cut a request into segments: inside the header
\* block, at its end, and at the end of the request
CutPoints(w) == {HdrSize(w) - 1, HdrSize(w), WireSize(w)}

\* the client of fd starts a request: its first segment reaches the socket.
\* It does so on a fresh connection, or when the server has consumed the
\* request before (no pipelining).
ClientStart(fd) ==
    /\ socks[fd].open /\ ~socks[fd].fin
    /\ quota.reqs > 0
    /\ \/ socks[fd].seq = 0
       \/ /\ socks[fd].seq > 0
          /\ socks[fd].sent = WireSize(CurWire(socks[fd]))
          /\ socks[fd].rcvq = 0
          /\ connections[fd] # NULL
          /\ connections[fd].read_len = 0
    /\ \E id \in catalog : \E n \in CutPoints(Wire(id)) :
          socks' = [socks EXCEPT ![fd].seq = @ + 1,
                                 ![fd].cur = id,
                                 ![fd].sent = n,
                                 ![fd].rcvq = n]
    /\ quota' = [quota EXCEPT !.reqs = @ - 1]
    /\ ev' = NoEvent
    /\ UNCHANGED <<avars, lvars, fvars, connections, active_connections, total_requests, parsed_requests,
                   auth_token, gw_routes, max_fd, backlog, catalog>>

\* a further segment of the request reaches the socket
ClientSend(fd) ==
    /\ socks[fd].open /\ ~socks[fd].fin
    /\ socks[fd].seq > 0
    /\ \E n \in CutPoints(CurWire(socks[fd])) :
          /\ n > socks[fd].sent
          /\ socks' = [socks EXCEPT ![fd].sent = n,
                                    ![fd].rcvq = @ + (n - socks[fd].sent)]
    /\ ev' = NoEvent
    /\ UNCHANGED <<avars, lvars, fvars, connections, active_connections, total_requests, parsed_requests,
                   auth_token, gw_routes, max_fd, backlog, catalog, quota>>

\* the client shuts down its sending side: the socket reads end of stream
ClientShutdown(fd) ==
    /\ socks[fd].open /\ ~socks[fd].fin
    /\ socks' = [socks EXCEPT ![fd].fin = TRUE]
    /\ ev' = NoEvent
    /\ UNCHANGED <<avars, lvars, fvars, connections, active_connections, total_requests, parsed_requests,
                   auth_token, gw_routes, max_fd, backlog, catalog, quota>>

\* close_connection: the table and the counter after it
close_connection(conns, active, fd) ==
    IF Desc(fd) < max_fd /\ conns[fd] # NULL
    THEN [connections |-> [conns EXCEPT ![fd] = NULL], active |-> active - 1]
    ELSE [connections |-> conns, active |-> active]

\* the keep-alive branch of handle_client_data
ResetForNext(conn) ==
    [conn EXCEPT !.state = CONN_READING_HEADERS,
                 !.read_len = 0,
                 !.request = ZeroRequest]

\* handle_client_data(gw, fd) for an open connection.  up, room and err are
\* what the handler's upstream call and the socket do during the dispatch.
handle_client_data(fd, up, room, err) ==
    LET conn == connections[fd]
        s == socks[fd]
        closed == close_connection(connections, active_connections, fd)
    IN
    \E rd \in {connection_read(conn, s.rcvq, s.fin,
                                [seq |-> s.seq, id |-> s.cur])} :
    LET e0 == [NoEvent EXCEPT !.kind = "data", !.fd = fd,
                              !.nread = s.rcvq - rd.rcvq,
                              !.read_rc = rd.rc,
                              !.read_why = rd.why,
                              !.seq = rd.conn.buf_seq,
                              !.wire = rd.conn.buf_wire,
                              !.pre_state = conn.state,
                              !.pre_active = active_connections,
                              !.prev = s.out]
    IN
    IF rd.rc < 0
    THEN /\ connections' = closed.connections
         /\ active_connections' = closed.active
         /\ socks' = [socks EXCEPT ![fd] = FreeSock]
         /\ ev' = e0
         /\ UNCHANGED <<total_requests, parsed_requests>>
    ELSE IF rd.conn.state \in {CONN_READING_HEADERS, CONN_READING_BODY}
    THEN \E p \in {http_parse_request(rd.conn, Wire(rd.conn.buf_wire))} :
         LET e1 == [e0 EXCEPT !.parsed = TRUE, !.parse_rc = p.rc,
                              !.keep_alive = p.conn.keep_alive,
                              !.body_len = p.conn.request.body_len]
         IN
         IF p.rc = 0
         THEN \E d \in {router_dispatch(
                           [Gw EXCEPT !.total_requests = total_requests + 1],
                           p.conn.request, up, room, err)} :
              /\ total_requests' = total_requests + 1
              /\ parsed_requests' = IF rd.conn.buf_seq # s.out.seq
                                    THEN parsed_requests + 1
                                    ELSE parsed_requests
              /\ ev' = [e1 EXCEPT !.dispatched = TRUE,
                                  !.reset_from =
                                      IF p.conn.keep_alive
                                      THEN ConnAfterHandler(d.handler, p.conn,
                                                            room).state
                                      ELSE NONE,
                                  !.body = d.resp.body,
                                  !.handler = d.handler,
                                  !.status = d.resp.status_code,
                                  !.send_rc = d.send.rc,
                                  !.send_errno = d.send.errno,
                                  !.written = d.send.written,
                                  !.total = d.send.total]
              /\ IF ~p.conn.keep_alive
                 THEN /\ connections' = closed.connections
                      /\ active_connections' = closed.active
                      /\ socks' = [socks EXCEPT ![fd] = FreeSock]
                 ELSE /\ connections' =
                             [connections EXCEPT ![fd] =
                                 ResetForNext(ConnAfterHandler(d.handler,
                                                               p.conn, room))]
                      /\ socks' = [socks EXCEPT
                                     ![fd].rcvq = rd.rcvq,
                                     ![fd].out = [seq |-> rd.conn.buf_seq,
                                                  written |-> d.send.written,
                                                  total |-> d.send.total]]
                      /\ UNCHANGED active_connections
         ELSE /\ connections' = [connections EXCEPT ![fd] = p.conn]
              /\ socks' = [socks EXCEPT ![fd].rcvq = rd.rcvq]
              /\ ev' = e1
              /\ UNCHANGED <<active_connections, total_requests,
                             parsed_requests>>
    ELSE /\ connections' = [connections EXCEPT ![fd] = rd.conn]
         /\ socks' = [socks EXCEPT ![fd].rcvq = rd.rcvq]
         /\ ev' = e0
         /\ UNCHANGED <<active_connections, total_requests,
                             parsed_requests>>

\* what the socket can do during a response write: take everything, or
\* take one byte and then fail with EAGAIN or with EPIPE
SendRooms == {1, GW_MAX_BODY_LEN}
SendErrnos == {"EAGAIN", "EPIPE"}
Upstreams == {"ok", "fail"}

\* EPOLLIN on a client socket that holds bytes or the end of the stream
HandleReadable(fd) ==
    /\ Desc(fd) < max_fd /\ connections[fd] # NULL
    /\ socks[fd].rcvq > 0 \/ socks[fd].fin
    /\ \E up \in Upstreams, room \in SendRooms, err \in SendErrnos :
          handle_client_data(fd, up, room, err)
    /\ UNCHANGED <<avars, lvars, fvars, auth_token, gw_routes, max_fd, backlog, catalog, quota>>

\* EPOLLIN on a client socket that holds nothing: the read finds EAGAIN at
\* once.  Taken only for a connection that has read before: until then
\* read_buf is what malloc returned.
SpuriousReadable(fd) ==
    /\ Desc(fd) < max_fd /\ connections[fd] # NULL
    /\ socks[fd].rcvq = 0 /\ ~socks[fd].fin
    /\ connections[fd].buf_seq > 0
    /\ quota.spur > 0
    /\ quota' = [quota EXCEPT !.spur = @ - 1]
    /\ \E up \in Upstreams, room \in SendRooms, err \in SendErrnos :
          handle_client_data(fd, up, room, err)
    /\ UNCHANGED <<avars, lvars, fvars, auth_token, gw_routes, max_fd, backlog, catalog>>

\* EPOLLERR / EPOLLHUP on a client socket: close_connection
HangUp(fd) ==
    /\ socks[fd].open
    /\ LET closed == close_connection(connections, active_connections, fd) IN
       /\ connections' = closed.connections
       /\ active_connections' = closed.active
    /\ socks' = [socks EXCEPT ![fd] = FreeSock]
    /\ ev' = [NoEvent EXCEPT !.kind = "hup", !.fd = fd]
    /\ UNCHANGED <<avars, lvars, fvars, total_requests, parsed_requests, auth_token, gw_routes, max_fd, backlog, catalog, quota>>


ReactorNext ==
    \/ ClientConnect
    \/ accept_connections
    \/ \E fd \in Fds : ClientStart(fd)
    \/ \E fd \in Fds : ClientSend(fd)
    \/ \E fd \in Fds : ClientShutdown(fd)
    \/ \E fd \in Fds : HandleReadable(fd)
    \/ \E fd \in Fds : SpuriousReadable(fd)
    \/ \E fd \in Fds : HangUp(fd)


(***************************************************************************)
(* The bearer check, auth_gateway_check(req, expected_token).              *)
(***************************************************************************)
\* the loop over the headers, from header i on
RECURSIVE auth_scan(_, _, _)
auth_scan(r, token, i) ==
    IF i > r.header_count THEN OC_ERR_AUTH
    ELSE IF /\ strcasecmp(r.headers[i].key, sAuthorization) = 0
            /\ strncmp(r.headers[i].value, sBearer, 7) = 0
            /\ strcmp(StrFrom(r.headers[i].value, 7), token) = 0
    THEN OC_OK
    ELSE auth_scan(r, token, i + 1)

\* the same loop with the token compared over its own length only
RECURSIVE auth_scan_prefix(_, _, _)
auth_scan_prefix(r, token, i) ==
    IF i > r.header_count THEN OC_ERR_AUTH
    ELSE IF /\ strcasecmp(r.headers[i].key, sAuthorization) = 0
            /\ strncmp(r.headers[i].value, sBearer, 7) = 0
            /\ strncmp(StrFrom(r.headers[i].value, 7), token, Len(token)) = 0
    THEN OC_OK
    ELSE auth_scan_prefix(r, token, i + 1)

auth_gateway_check_prefix(r, token) ==
    IF token = NULLSTR \/ token = <<>> THEN OC_OK
    ELSE auth_scan_prefix(r, token, 1)

auth_gateway_check(r, token) ==
    IF token = NULLSTR \/ token = <<>> THEN OC_OK
    ELSE auth_scan(r, token, 1)

\* header lines a request is given, at most this many
MaxAuthHeaders == 2

AuthKeys ==
    {sAuthorization,
     <<"a","u","t","h","o","r","i","z","a","t","i","o","n">>,
     <<"A","u","t","h">>,
     <<"X">>}

AuthValues ==
    {sBearer \o sTok,
     sBearer \o sTokX,
     sBearer \o <<"t">>,
     sBearer,
     <<"b","e","a","r","e","r"," ">> \o sTok,
     <<"B","e","a","r","e","r">> \o sTok,
     sTok}

AuthTokens == {NULLSTR, <<>>, sTok, sTokX}

AuthHeaders == {Hdr(k, v) : k \in AuthKeys, v \in AuthValues}

AuthRequest(hs) ==
    [ZeroRequest EXCEPT !.headers = hs, !.header_count = Len(hs),
                        !.path = pHealth]

AuthIdle ==
    /\ req = ZeroRequest
    /\ expected_token = NULLSTR
    /\ auth_called = FALSE
    /\ auth_rc = NONE
    /\ req_in = ZeroRequest

InitAuth ==
    /\ \E n \in 0..MaxAuthHeaders : \E hs \in [1..n -> AuthHeaders] :
          /\ req = AuthRequest(hs)
          /\ req_in = AuthRequest(hs)
    /\ expected_token \in AuthTokens
    /\ auth_called = FALSE
    /\ auth_rc = NONE

\* one call of auth_gateway_check; req is read and left as it is
AuthCheck ==
    /\ ~auth_called
    /\ auth_called' = TRUE
    /\ auth_rc' = auth_gateway_check(req, expected_token)
    /\ UNCHANGED <<req, expected_token, req_in, rvars, lvars, fvars>>


(***************************************************************************)
(* The life of the process: main(), signal_handler, epoll_server_run.      *)
(* listen, epoll_create and epoll_wait are taken to succeed (epoll_wait    *)
(* may be interrupted: EINTR leads back to the loop test as a return       *)
(* does).  What the loop does with the events is the reactor above.        *)
(***************************************************************************)
\* signals delivered in one run
MaxSignals == 3
\* returns of epoll_wait that are counted
MaxWaits == 3

StopSignals == {"SIGINT", "SIGTERM"}

\* the environment seen by systemd.c: whether NOTIFY_SOCKET is set, and the
\* datagrams sent to it so far
ZeroNotify == [socket |-> FALSE, sent |-> <<>>]

\* sd_notify_send: nothing is sent and 0 returned without NOTIFY_SOCKET;
\* otherwise the state is sent (socket and sendto succeed) and 0 returned
sd_notify_send(n, state) ==
    IF ~n.socket THEN [notify |-> n, rc |-> 0]
    ELSE [notify |-> [n EXCEPT !.sent = Append(@, state)], rc |-> 0]

systemd_notify_ready(n) == sd_notify_send(n, "READY=1")

systemd_notify_stopping(n) == sd_notify_send(n, "STOPPING=1")

LifeIdle ==
    /\ pc = "epoll_wait"
    /\ installed = TRUE
    /\ g_gateway = TRUE
    /\ running = TRUE
    /\ stop_requested = FALSE
    /\ signals = <<>>
    /\ waits = 0
    /\ start_rc = <<>>
    /\ notify = ZeroNotify

\* main() is about to call setup_signals
InitLife ==
    /\ pc = "setup_signals"
    /\ installed = FALSE
    /\ g_gateway = FALSE
    /\ running = FALSE
    /\ stop_requested = FALSE
    /\ signals = <<>>
    /\ waits = 0
    /\ start_rc = <<>>
    /\ \E set \in BOOLEAN : notify = [ZeroNotify EXCEPT !.socket = set]

setup_signals ==
    /\ pc = "setup_signals"
    /\ installed' = TRUE
    /\ pc' = "gateway_create"
    /\ UNCHANGED <<g_gateway, running, stop_requested, signals, waits,
                   start_rc, notify, rvars, avars, fvars>>

\* http_init and gateway_create: gw->running = false
gateway_create ==
    /\ pc = "gateway_create"
    /\ running' = FALSE
    /\ pc' = "publish"
    /\ UNCHANGED <<installed, g_gateway, stop_requested, signals, waits,
                   start_rc, notify, rvars, avars, fvars>>

\* g_gateway = gw
PublishGateway ==
    /\ pc = "publish"
    /\ g_gateway' = TRUE
    /\ pc' = "add_routes"
    /\ UNCHANGED <<installed, running, stop_requested, signals, waits,
                   start_rc, notify, rvars, avars, fvars>>

\* the three gateway_add_route calls and channels_init
RegisterRoutes ==
    /\ pc = "add_routes"
    /\ pc' = "gateway_start"
    /\ UNCHANGED <<installed, g_gateway, running, stop_requested, signals,
                   waits, start_rc, notify, rvars, avars, fvars>>

\* gateway_start up to its call of epoll_server_run
gateway_start ==
    /\ pc = "gateway_start"
    /\ pc' = "epoll_server_run"
    /\ UNCHANGED <<installed, g_gateway, running, stop_requested, signals,
                   waits, start_rc, notify, rvars, avars, fvars>>

\* epoll_server_run: gw->running = true
epoll_server_run ==
    /\ pc = "epoll_server_run"
    /\ running' = TRUE
    /\ pc' = "while"
    /\ UNCHANGED <<installed, g_gateway, stop_requested, signals, waits,
                   start_rc, notify, rvars, avars, fvars>>

\* while (gw->running); past the loop epoll_server_run returns OC_OK and
\* gateway_start returns what it returned
LoopTest ==
    /\ pc = "while"
    /\ IF running
       THEN pc' = "epoll_wait" /\ UNCHANGED start_rc
       ELSE pc' = "returned" /\ start_rc' = <<OC_OK>>
    /\ UNCHANGED <<installed, g_gateway, running, stop_requested, signals,
                   waits, notify, rvars, avars, fvars>>

\* epoll_wait returns: on its 1 s timeout, with events, which the loop
\* body handles, or with EINTR
epoll_wait ==
    /\ pc = "epoll_wait"
    /\ pc' = "while"
    /\ waits' = Min(waits + 1, MaxWaits)
    /\ UNCHANGED <<installed, g_gateway, running, stop_requested, signals,
                   start_rc, notify, rvars, avars, fvars>>

\* a signal arrives.  With the handlers installed signal_handler runs;
\* before that the default action of the signal ends the process.
signal_handler(sig) ==
    /\ pc \notin {"returned", "exited", "killed"}
    /\ Len(signals) < MaxSignals
    /\ signals' = Append(signals, sig)
    /\ IF installed
       THEN /\ running' = IF g_gateway THEN FALSE ELSE running
            /\ stop_requested' = (stop_requested \/ g_gateway)
            /\ UNCHANGED pc
       ELSE /\ pc' = "killed"
            /\ UNCHANGED <<running, stop_requested>>
    /\ UNCHANGED <<installed, g_gateway, waits, start_rc, notify, rvars, avars, fvars>>

\* main() after gateway_start has returned: channels_shutdown,
\* gateway_destroy, http_cleanup, config_free, return rc
main_cleanup ==
    /\ pc = "returned"
    /\ pc' = "exited"
    /\ UNCHANGED <<installed, g_gateway, running, stop_requested, signals,
                   waits, start_rc, notify, rvars, avars, fvars>>

MainStep ==
    \/ main_cleanup
    \/ setup_signals
    \/ gateway_create
    \/ PublishGateway
    \/ RegisterRoutes
    \/ gateway_start
    \/ epoll_server_run
    \/ LoopTest
    \/ epoll_wait


(***************************************************************************)
(* One call of ws_handle_upgrade.                                          *)
(***************************************************************************)
UpgradeMethods == {sGET, sPOST, sOPTIONS}
UpgradePaths == {pWs, pHealth}
UpgradeHeaders ==
    {<<>>,
     <<Hdr(sSecWebSocketKey, <<"k","e","y">>)>>,
     <<Hdr(<<"s","e","c","-","w","e","b","s","o","c","k","e","t","-","k","e","y">>,
           <<"k","e","y">>)>>,
     <<Hdr(<<"U","p","g","r","a","d","e">>, <<"w","e","b","s","o","c","k","e","t">>)>>,
     <<Hdr(<<"U","p","g","r","a","d","e">>, <<"w","e","b","s","o","c","k","e","t">>),
       Hdr(sSecWebSocketKey, <<"k","e","y">>)>>}
UpgradeStates == {CONN_READING_HEADERS, CONN_READING_BODY}
UpgradeRooms == {0, 1, GW_READ_BUF_SIZE}

InitUpgrade ==
    /\ \E m \in UpgradeMethods, p \in UpgradePaths, hs \in UpgradeHeaders,
          st \in UpgradeStates :
          call = [fn |-> "ws_handle_upgrade",
                  conn |-> [fd |-> 1, state |-> st, is_websocket |-> FALSE],
                  method |-> m,
                  req |-> [ZeroRequest EXCEPT !.method = parse_method(m),
                                              !.path = p,
                                              !.headers = hs,
                                              !.header_count = Len(hs)]]
    /\ ret = [done |-> FALSE]

\* one call of ws_handle_upgrade
UpgradeCall ==
    /\ call.fn = "ws_handle_upgrade"
    /\ ~ret.done
    /\ \E room \in UpgradeRooms :
         \E r \in {ws_handle_upgrade(call.conn, call.req, room)} :
            ret' = [done |-> TRUE, rc |-> r.rc, conn |-> r.conn,
                    n |-> r.n, len |-> r.len]
    /\ UNCHANGED <<call, rvars, avars, lvars, dvars, kvars, svars>>


(***************************************************************************)
(* WebSocket frames, ws_read_frame and ws_send_text.  A byte is a number   *)
(* of 0..255.  A payload is [len, pat]: len bytes, the byte at offset i    *)
(* being pat[i % 4 + 1]; masking with a 4-byte key keeps that shape.  What *)
(* is on the socket is [bytes, tail]: the header bytes one by one, then    *)
(* the payload.                                                            *)
(***************************************************************************)
\* a ^ b on bytes
RECURSIVE Xor(_, _)
Xor(a, b) ==
    IF a = 0 /\ b = 0 THEN 0
    ELSE ((a + b) % 2) + 2 * Xor(a \div 2, b \div 2)

\* x >> (8 * i)
RECURSIVE Shr8(_, _)
Shr8(x, i) == IF i = 0 THEN x ELSE Shr8(x \div 256, i - 1)

\* the byte at offset i of a payload
PayByte(p, i) == p.pat[(i % 4) + 1]

\* the bytes of two payloads are the same
SamePayload(p, q) ==
    /\ p.len = q.len
    /\ \A i \in 0..(Min(p.len, 4) - 1) : PayByte(p, i) = PayByte(q, i)

StreamLen(st) == Len(st.bytes) + st.tail.len

\* the byte at position i >= 1 of the stream
StreamByte(st, i) ==
    IF i <= Len(st.bytes) THEN st.bytes[i]
    ELSE PayByte(st.tail, i - Len(st.bytes) - 1)

\* read(2) on the non-blocking socket at position pos, of which `avail`
\* bytes have arrived: what is there, at most k, and -1 when nothing is
sockread(pos, avail, k) == IF avail > pos THEN Min(k, avail - pos) ELSE -1

\* len = (len << 8) | ext[i], over n bytes after position pos
RECURSIVE ReadBE(_, _, _, _)
ReadBE(st, pos, n, len) ==
    IF n = 0 THEN len
    ELSE ReadBE(st, pos + 1, n - 1, len * 256 + StreamByte(st, pos + 1))

\* the read loop of ws_read_frame: TRUE when len bytes were read
RECURSIVE read_payload(_, _, _, _)
read_payload(pos, avail, len, total_read) ==
    IF total_read < len
    THEN LET n == sockread(pos + total_read, avail, len - total_read) IN
         IF n <= 0 THEN FALSE
         ELSE read_payload(pos, avail, len, total_read + n)
    ELSE TRUE

\* data[i] ^= mask_key[(i + 1) % 4]
UnmaskShifted(data, mask_key) ==
    [data EXCEPT !.pat = [j \in 1..4 |-> Xor(data.pat[j], mask_key[(j % 4) + 1])]]

\* data[i] ^= mask_key[i % 4]
Unmask(data, mask_key) ==
    [data EXCEPT !.pat = [j \in 1..4 |-> Xor(data.pat[j], mask_key[j])]]

FrameFail == [rc |-> -1, payload |-> <<>>, payload_len |-> <<>>]

\* ws_read_frame on the stream st of which `avail` bytes have arrived
ws_read_frame(st, avail) ==
    IF sockread(0, avail, 2) # 2 THEN FrameFail
    ELSE
    LET opcode == StreamByte(st, 1) % 16
        masked == (StreamByte(st, 2) \div 128) % 2 # 0
        len7 == StreamByte(st, 2) % 128
        ext == IF len7 = 126 THEN 2 ELSE IF len7 = 127 THEN 8 ELSE 0
    IN
    IF opcode = 8 THEN FrameFail
    ELSE IF ext > 0 /\ sockread(2, avail, ext) # ext THEN FrameFail
    ELSE
    LET len == IF ext > 0 THEN ReadBE(st, 2, ext, 0) ELSE len7
        kpos == 2 + ext
    IN
    IF masked /\ sockread(kpos, avail, 4) # 4 THEN FrameFail
    ELSE
    LET mask_key == IF masked
                    THEN [j \in 1..4 |-> StreamByte(st, kpos + j)]
                    ELSE <<0, 0, 0, 0>>
        dpos == IF masked THEN kpos + 4 ELSE kpos
        data == [len |-> len,
                 pat |-> [j \in 1..4 |-> StreamByte(st, dpos + j)]]
    IN
    IF ~read_payload(dpos, avail, len, 0) THEN FrameFail
    ELSE [rc |-> opcode,
          payload |-> <<IF masked THEN Unmask(data, mask_key) ELSE data>>,
          payload_len |-> <<len>>]

\* the header ws_send_text builds
SendHeader(len) ==
    IF len < 126 THEN <<129, len>>
    ELSE IF len < 65536 THEN <<129, 126, Shr8(len, 1) % 256, len % 256>>
    ELSE <<129, 127>> \o [k \in 1..8 |-> Shr8(len, 8 - k) % 256]

\* the write loop of ws_send_text: the bytes of the text written
RECURSIVE send_payload(_, _, _)
send_payload(len, written, room) ==
    IF written < len
    THEN LET n == write(len - written, room) IN
         IF n <= 0 THEN [rc |-> -1, written |-> written]
         ELSE send_payload(len, written + n, room - n)
    ELSE [rc |-> 0, written |-> written]

\* ws_send_text; out is what reached the socket
ws_send_text(conn, text, room) ==
    IF ~conn.is_websocket
    THEN [rc |-> -1, out |-> [bytes |-> <<>>, tail |-> [text EXCEPT !.len = 0]]]
    ELSE
    LET header == SendHeader(text.len)
        n == write(Len(header), room)
    IN
    IF n # Len(header)
    THEN [rc |-> -1,
          out |-> [bytes |-> SubSeq(header, 1, IF n > 0 THEN n ELSE 0),
                   tail |-> [text EXCEPT !.len = 0]]]
    ELSE LET w == send_payload(text.len, 0, room - n) IN
         [rc |-> w.rc,
          out |-> [bytes |-> header, tail |-> [text EXCEPT !.len = w.written]]]

\* the frame a client makes of payload p: first byte b0, the length in its
\* shortest form, the key and the masked payload when `masked`
ClientFrame(b0, masked, key, p) ==
    LET m == IF masked THEN 128 ELSE 0
        lenbytes == IF p.len < 126 THEN <<m + p.len>>
                    ELSE IF p.len < 65536
                    THEN <<m + 126, p.len \div 256, p.len % 256>>
                    ELSE <<m + 127, 0, 0, 0, 0,
                           (p.len \div 16777216) % 256, (p.len \div 65536) % 256,
                           (p.len \div 256) % 256, p.len % 256>>
    IN [bytes |-> <<b0>> \o lenbytes \o (IF masked THEN key ELSE <<>>),
        tail |-> IF masked
                 THEN [p EXCEPT !.pat = [j \in 1..4 |-> Xor(p.pat[j], key[j])]]
                 ELSE p]

FrameLens == {0, 1, 3, 125, 126, 65535, 65536, 70000}
FramePats == {<<104, 105, 33, 10>>, <<0, 255, 128, 1>>}
FrameKeys == {<<0, 0, 0, 0>>, <<1, 2, 3, 4>>, <<255, 128, 55, 170>>}
FrameFirstBytes == {129, 1, 130, 136, 137}
FramePayloads == [len : FrameLens, pat : FramePats]
SendRoomsWs == {0, 1, 5, GW_MAX_BODY_LEN}

\* a client frame has arrived on a connection, and the text it carries is
\* there to be sent on it
InitFrame ==
    /\ \E b0 \in FrameFirstBytes, masked \in BOOLEAN, key \in FrameKeys,
          p \in FramePayloads, ws \in BOOLEAN :
          \E st \in {ClientFrame(b0, masked, key, p)} :
          \E avail \in {StreamLen(st), StreamLen(st) - 1, 1} :
             call = [fn |-> "ws_frame", b0 |-> b0, masked |-> masked,
                     key |-> key, p |-> p, stream |-> st, avail |-> avail,
                     conn |-> [fd |-> 1,
                               state |-> IF ws THEN CONN_WEBSOCKET
                                         ELSE CONN_READING_HEADERS,
                               is_websocket |-> ws]]
    /\ ret = [read |-> <<>>, send |-> <<>>]

\* one call of ws_read_frame
FrameRead ==
    /\ call.fn = "ws_frame"
    /\ ret.read = <<>>
    /\ \E r \in {ws_read_frame(call.stream, call.avail)} :
         ret' = [ret EXCEPT !.read = <<r>>]
    /\ UNCHANGED <<call, rvars, avars, lvars, dvars, kvars, svars>>

\* one call of ws_send_text
FrameSend ==
    /\ call.fn = "ws_frame"
    /\ ret.send = <<>>
    /\ \E room \in SendRoomsWs :
         \E r \in {ws_send_text(call.conn, call.p, room)} :
            ret' = [ret EXCEPT !.send = <<[rc |-> r.rc, out |-> r.out,
                                          room |-> room]>>]
    /\ UNCHANGED <<call, rvars, avars, lvars, dvars, kvars, svars>>


(***************************************************************************)
(* router_dispatch and route_matches over route tables other than main's.  *)
(* The route at index i of a table has the i-th handler, so that the       *)
(* handler called tells the index of the route.                            *)
(***************************************************************************)
MaxRoutes == 2

pStar == <<"*">>
pRoot == <<"/">>
pRootStar == <<"/", "*">>
pV1 == <<"/", "v", "1", "/">>
pV1Star == <<"/", "v", "1", "/", "*">>
pMid == <<"/", "*", "/", "a">>
pBA == <<"/", "b", "/", "a">>

RoutePatterns == {pHealth, pV1Star, pStar, pRootStar, pMid}
RouteMethods == {HTTP_GET, HTTP_POST}
RequestMethods == {HTTP_GET, HTTP_POST, HTTP_OPTIONS, HTTP_DELETE}
RequestPaths == {pHealth, pChat, pV1, pRoot, pMid, pBA, pV1Star}
Handlers == <<"handler_health", "handler_webhook", "handler_chat">>

\* gateway_add_route: the route is appended
gateway_add_route(routes, method, pattern, handler) ==
    Append(routes, [method |-> method, pattern |-> pattern, handler |-> handler])

\* the tables n calls of gateway_add_route make
RECURSIVE RouteTables(_)
RouteTables(n) ==
    IF n = 0 THEN {<<>>}
    ELSE {gateway_add_route(t, m, p, Handlers[n]) :
            t \in RouteTables(n - 1), m \in RouteMethods, p \in RoutePatterns}

InitRouter ==
    /\ \E n \in 0..MaxRoutes :
       \E t \in RouteTables(n), m \in RequestMethods, p \in RequestPaths,
          b \in BOOLEAN :
          call = [fn |-> "router_dispatch",
                  gw |-> [routes |-> t, total_requests |-> 1,
                          active_connections |-> 1],
                  req |-> [ZeroRequest EXCEPT !.method = m, !.path = p,
                                              !.has_body = b,
                                              !.body_len = IF b THEN 5 ELSE 0]]
    /\ ret = [dispatch |-> <<>>, match |-> <<>>]

\* one call of router_dispatch: the handlers it called, the calls of
\* http_response_send it made, and the bytes of the response
RouterCall ==
    /\ call.fn = "router_dispatch"
    /\ ret.dispatch = <<>>
    /\ \E up \in Upstreams, room \in SendRooms :
         \E d \in {router_dispatch(call.gw, call.req, up, room, "EAGAIN")} :
            ret' = [ret EXCEPT !.dispatch =
                      <<[handlers |-> IF d.handler = NONE THEN <<>>
                                      ELSE <<d.handler>>,
                         sends |-> <<d.send>>,
                         resp |-> d.resp,
                         bytes |-> ResponseBytes(d.resp)]>>]
    /\ UNCHANGED <<call, rvars, avars, lvars, dvars, kvars, svars>>

\* one call of route_matches, on the first route of the table
MatchCall ==
    /\ call.fn = "router_dispatch"
    /\ ret.match = <<>>
    /\ call.gw.routes # <<>>
    /\ ret' = [ret EXCEPT !.match =
                 <<route_matches(call.gw.routes[1], call.req.method,
                                 call.req.path)>>]
    /\ UNCHANGED <<call, rvars, avars, lvars, dvars, kvars, svars>>


(***************************************************************************)
(* The response builder under sequences of calls.  call.resp is the        *)
(* http_response_build_t, call.log the calls made on it so far.            *)
(***************************************************************************)
MaxCalls == 3

BuilderStatuses == {<<204, "No Content">>, <<404, "Not Found">>,
                    <<502, "Bad Gateway">>}
BuilderHeaders == {<<"Access-Control-Allow-Origin", "*">>,
                   <<"Access-Control-Allow-Methods", "GET, POST, OPTIONS">>,
                   <<"Access-Control-Allow-Headers", "Content-Type, Authorization">>}
BuilderBodies == {"", "pong", "{\"error\":\"Not Found\"}"}

InitResponse ==
    /\ call = [fn |-> "http_response", resp |-> http_response_init, log |-> <<>>]
    /\ ret = [sent |-> <<>>]

BuilderOpen ==
    /\ call.fn = "http_response"
    /\ ret.sent = <<>>
    /\ Len(call.log) < MaxCalls

SetStatus ==
    /\ BuilderOpen
    /\ \E st \in BuilderStatuses :
         call' = [call EXCEPT
                    !.resp = http_response_set_status(@, st[1], st[2]),
                    !.log = Append(@, [op |-> "set_status", code |-> st[1],
                                       text |-> st[2]])]
    /\ UNCHANGED <<ret, rvars, avars, lvars, dvars, kvars, svars>>

AddHeader ==
    /\ BuilderOpen
    /\ \E h \in BuilderHeaders :
         call' = [call EXCEPT
                    !.resp = http_response_add_header(@, h[1], h[2]),
                    !.log = Append(@, [op |-> "add_header", key |-> h[1],
                                       value |-> h[2]])]
    /\ UNCHANGED <<ret, rvars, avars, lvars, dvars, kvars, svars>>

SetBody ==
    /\ BuilderOpen
    /\ \E b \in BuilderBodies :
         call' = [call EXCEPT
                    !.resp = http_response_set_body(@, b, Len(b)),
                    !.log = Append(@, [op |-> "set_body", body |-> b])]
    /\ UNCHANGED <<ret, rvars, avars, lvars, dvars, kvars, svars>>

SetJson ==
    /\ BuilderOpen
    /\ \E b \in BuilderBodies \ {""} :
         call' = [call EXCEPT
                    !.resp = http_response_set_json(@, b),
                    !.log = Append(@, [op |-> "set_json", body |-> b])]
    /\ UNCHANGED <<ret, rvars, avars, lvars, dvars, kvars, svars>>

\* http_response_send: the buffer it built and what the write loop did
Send ==
    /\ call.fn = "http_response"
    /\ ret.sent = <<>>
    /\ \E room \in SendRooms :
         \E r \in {http_response_send(call.resp, room, "EAGAIN")} :
            ret' = [sent |-> <<[rc |-> r.rc, written |-> r.written,
                               total |-> r.total, room |-> room,
                               bytes |-> ResponseBytes(call.resp)]>>]
    /\ UNCHANGED <<call, rvars, avars, lvars, dvars, kvars, svars>>


(***************************************************************************)
(* handler_chat over chat bodies, configurations and upstream outcomes.    *)
(***************************************************************************)
MaxDeltas == 2

ChatModels == {NULLSTR, sClaude \o <<"-","3">>, sGpt \o <<"-","4">>,
               <<"l","l","a","m","a">>, <<"C","l","a","u","d","e">>,
               <<"g","p">>}
ChatMessages ==
    {<<>>,
     <<[role |-> "user", content |-> <<"ping">>]>>,
     <<[role |-> "system", content |-> <<"be brief">>]>>,
     <<[role |-> "user", content |-> <<>>]>>,
     <<[role |-> "system", content |-> <<"be brief">>],
       [role |-> "user", content |-> <<"ping">>]>>,
     <<[role |-> "user", content |-> <<"ping">>],
       [role |-> "assistant", content |-> <<"pong">>],
       [role |-> "user", content |-> <<"again">>]>>,
     <<[role |-> "system", content |-> <<"be brief">>],
       [role |-> "user", content |-> <<"ping">>],
       [role |-> "system", content |-> <<"be long">>]>>,
     <<[role |-> "system", content |-> <<>>],
       [role |-> "user", content |-> <<"">>]>>}
ChatBodies ==
    {[valid |-> FALSE, model |-> NULLSTR, messages |-> <<>>]}
    \cup [valid : {TRUE}, model : ChatModels, messages : ChatMessages]
ChatCfgs ==
    [default_provider : {"PROVIDER_ANTHROPIC", "PROVIDER_OPENAI"},
     anthropic_model : {"claude-m"}, openai_model : {"gpt-m"},
     system_prompt : {"You are Kelp"},
     api_key : [{"PROVIDER_ANTHROPIC", "PROVIDER_OPENAI"} -> BOOLEAN]]

\* the text deltas a stream delivers: at most n of them
RECURSIVE DeltaSeqs(_)
DeltaSeqs(n) ==
    IF n = 0 THEN {<<>>}
    ELSE DeltaSeqs(n - 1)
         \cup {Append(ds, t) : ds \in {d \in DeltaSeqs(n - 1) : Len(d) = n - 1},
                               t \in {"Hi", "!"}}

\* what the upstream call can come to: success with the stream done, or a
\* failure after some of the deltas
StreamOutcomes ==
    {[rc |-> OC_OK, deltas |-> ds, done |-> TRUE,
      input_tokens |-> 7, output_tokens |-> Len(ds)] : ds \in DeltaSeqs(MaxDeltas)}
    \cup {[rc |-> rc, deltas |-> ds, done |-> FALSE,
           input_tokens |-> 0, output_tokens |-> 0] :
             rc \in {OC_ERR_IO, OC_ERR_AUTH}, ds \in DeltaSeqs(MaxDeltas)}

HookBodies ==
    {[valid |-> FALSE, message |-> <<>>, session_id |-> <<>>]}
    \cup [valid : {TRUE}, message : {<<>>, <<"">>, <<"ping">>},
          session_id : {<<>>, <<"s1">>}]

\* a POST request with or without a body
PostRequest(path, b) ==
    [ZeroRequest EXCEPT !.method = HTTP_POST, !.path = path, !.has_body = b,
                        !.body_len = IF b THEN 5 ELSE 0]

InitChat ==
    /\ \/ \E b \in BOOLEAN, body \in ChatBodies, cfg \in ChatCfgs :
             call = [fn |-> "handler_chat", req |-> PostRequest(pChat, b),
                     body |-> body, cfg |-> cfg]
       \/ \E b \in BOOLEAN, body \in HookBodies, cfg \in ChatCfgs :
             call = [fn |-> "handler_webhook", req |-> PostRequest(pHook, b),
                     body |-> body, cfg |-> cfg]
    /\ ret = [done |-> FALSE]

\* one call of handler_chat, as router_dispatch makes it
ChatCall ==
    /\ call.fn = "handler_chat"
    /\ ~ret.done
    /\ \E out \in StreamOutcomes :
         \E r \in {handler_chat_run(call.req, call.body, call.cfg,
                        http_response_add_header(http_response_init,
                            "Access-Control-Allow-Origin", "*"), out)} :
            ret' = [done |-> TRUE, out |-> out, resp |-> r.resp,
                    json |-> r.json, posts |-> r.posts]
    /\ UNCHANGED <<call, rvars, avars, lvars, dvars, kvars, svars>>

\* one call of handler_webhook, as router_dispatch makes it
HookCall ==
    /\ call.fn = "handler_webhook"
    /\ ~ret.done
    /\ \E out \in StreamOutcomes :
         \E r \in {handler_webhook_run(call.req, call.body, call.cfg,
                        http_response_add_header(http_response_init,
                            "Access-Control-Allow-Origin", "*"), out)} :
            ret' = [done |-> TRUE, out |-> out, resp |-> r.resp,
                    json |-> r.json, posts |-> r.posts]
    /\ UNCHANGED <<call, rvars, avars, lvars, dvars, kvars, svars>>


(***************************************************************************)
(* The SSE parser of the upstream client.  A stream is a sequence of       *)
(* bytes: LF, CR, "t" for a byte of a line carrying a text delta and "d"   *)
(* for a byte of a line that ends the message (message_stop, [DONE]).      *)
(***************************************************************************)

LF == "\n"
CR == "\r"

\* the buffer ends, at position i, with a blank line: LF LF or CR LF CR LF
EndsEvent(buf, i) ==
    \/ i >= 2 /\ buf[i - 1] = LF /\ buf[i] = LF
    \/ i >= 4 /\ buf[i - 3] = CR /\ buf[i - 2] = LF /\ buf[i - 1] = CR /\ buf[i] = LF

\* the length of the blank line that ends at position i
DelimLen(buf, i) == IF buf[i - 1] = LF THEN 2 ELSE 4

\* a scan that looks for LF LF in the whole buffer before it looks for
\* CR LF CR LF
FirstEndLfFirst(buf) ==
    LET lf == {i \in 2..Len(buf) : buf[i - 1] = LF /\ buf[i] = LF}
        ends == {i \in 1..Len(buf) : EndsEvent(buf, i)} IN
    IF lf # {} THEN CHOOSE i \in lf : \A j \in lf : i <= j
    ELSE IF ends = {} THEN 0
    ELSE CHOOSE i \in ends : \A j \in ends : i <= j

\* the position where the first complete event of the buffer ends, 0 when
\* the buffer holds no complete event
FirstEnd(buf) ==
    LET ends == {i \in 1..Len(buf) : EndsEvent(buf, i)} IN
    IF ends = {} THEN 0 ELSE CHOOSE i \in ends : \A j \in ends : i <= j

\* the dialect parser on one event: on_done for an event with a line that
\* ends the message, on_text with its text for an event with delta bytes,
\* nothing for an event without data
stream_dispatch(event) ==
    IF \E i \in 1..Len(event) : event[i] = "d" THEN <<[cb |-> "on_done"]>>
    ELSE IF \E i \in 1..Len(event) : event[i] = "t"
    THEN <<[cb |-> "on_text", text |-> SelectSeq(event, LAMBDA c : c = "t")]>>
    ELSE <<>>

ZeroStreamCtx == [buf |-> <<>>, events |-> <<>>, calls |-> <<>>]

\* the re-scan of the buffer: every complete event is taken off its front
\* and dispatched; events records the bytes of each with its blank line
RECURSIVE stream_scan(_)
stream_scan(ctx) ==
    LET e == FirstEnd(ctx.buf) IN
    IF e = 0 THEN ctx
    ELSE LET event == SubSeq(ctx.buf, 1, e - DelimLen(ctx.buf, e)) IN
         stream_scan([buf |-> SubSeq(ctx.buf, e + 1, Len(ctx.buf)),
                      events |-> Append(ctx.events, SubSeq(ctx.buf, 1, e)),
                      calls |-> ctx.calls \o stream_dispatch(event)])

\* stream_feed: the chunk is appended to the buffer and the buffer scanned
stream_feed(ctx, data) == stream_scan([ctx EXCEPT !.buf = @ \o data])

MaxStream == 6

StreamBytes == {LF, CR, "t", "d"}

\* the byte streams of length n
RECURSIVE StreamsOf(_)
StreamsOf(n) ==
    IF n = 0 THEN {<<>>}
    ELSE {Append(s, b) : s \in StreamsOf(n - 1), b \in StreamBytes}

InitSse ==
    /\ \E n \in 1..MaxStream : \E s \in StreamsOf(n) :
          call = [fn |-> "stream_feed", stream |-> s]
    /\ ret = [fed |-> 0, ctx |-> ZeroStreamCtx]

\* the write callback of the upstream client hands the next chunk of the
\* response body, of any length, to stream_feed
SseFeed ==
    /\ call.fn = "stream_feed"
    /\ ret.fed < Len(call.stream)
    /\ \E k \in 1..(Len(call.stream) - ret.fed) :
          ret' = [fed |-> ret.fed + k,
                  ctx |-> stream_feed(ret.ctx,
                              SubSeq(call.stream, ret.fed + 1, ret.fed + k))]
    /\ UNCHANGED <<call, rvars, avars, lvars, dvars, kvars, svars>>

(***************************************************************************)
(* The session store.  db is the SQLite database behind store->db: the     *)
(* rows of sessions, the rows of messages in the order of their            *)
(* AUTOINCREMENT id, and whether the library enforces foreign keys (off    *)
(* unless it was built with SQLITE_DEFAULT_FOREIGN_KEYS=1: the store sets  *)
(* no PRAGMA foreign_keys); now is the clock time(NULL) reads.             *)
(***************************************************************************)

OC_ERR == -1
HISTORY_DEFAULT_LIMIT == 50

\* the context kelp_tool_ctx_new returns: no tool registered
ZeroToolCtx == [tools |-> <<>>, tool_count |-> 0]

\* the tables ensure_tables creates, empty
ZeroDb == [sessions |-> {}, messages |-> <<>>, foreign_keys |-> FALSE]

SessionIdsOf(d) == {s.id : s \in d.sessions}

\* INSERT INTO sessions: refused when the primary key is taken
sql_insert_session(d, id, channel_id, t) ==
    IF id \in SessionIdsOf(d) THEN [db |-> d, rc |-> "SQLITE_CONSTRAINT"]
    ELSE [db |-> [d EXCEPT !.sessions = @ \cup
                     {[id |-> id, channel_id |-> channel_id,
                       created_at |-> t, updated_at |-> t]}],
          rc |-> "SQLITE_DONE"]

\* session_store_create with the id generate_session_id drew: the id, or
\* <<>> (NULL) when the INSERT failed
session_store_create(d, id, channel_id, t) ==
    LET ins == sql_insert_session(d, id, channel_id, t) IN
    [db |-> ins.db, id |-> IF ins.rc = "SQLITE_DONE" THEN <<id>> ELSE <<>>]

\* INSERT INTO messages: the FOREIGN KEY clause refuses an unknown session
\* only when the library enforces foreign keys
sql_insert_message(d, session_id, role, content, t) ==
    IF d.foreign_keys /\ session_id \notin SessionIdsOf(d)
    THEN [db |-> d, rc |-> "SQLITE_CONSTRAINT"]
    ELSE [db |-> [d EXCEPT !.messages = Append(@,
                     [id |-> Len(@) + 1, session_id |-> session_id,
                      role |-> role, content |-> content, created_at |-> t])],
          rc |-> "SQLITE_DONE"]

\* UPDATE sessions SET updated_at = strftime('%s','now') WHERE id = ?, with
\* the value bound to the parameter: <<>> when nothing was bound, which
\* SQLite reads as NULL, and id = NULL is true of no row
sql_update_session(d, bound_id, t) ==
    [d EXCEPT !.sessions =
        {IF bound_id # <<>> /\ s.id = bound_id[1]
         THEN [s EXCEPT !.updated_at = t] ELSE s : s \in @}]

\* session_store_add_message: the UPDATE goes through sqlite3_exec, which
\* binds nothing to its parameter
session_store_add_message(d, session_id, role, content, t) ==
    LET ins == sql_insert_message(d, session_id, role, content, t) IN
    [db |-> sql_update_session(ins.db, <<>>, t),
     rc |-> IF ins.rc = "SQLITE_DONE" THEN OC_OK ELSE OC_ERR]

\* SELECT ... WHERE session_id = ? ORDER BY created_at DESC LIMIT ?: the
\* results the query can give, as sequences of message ids.  Rows with the
\* same created_at come in an order SQL leaves open.
history_select(d, session_id, limit) ==
    LET match == {i \in 1..Len(d.messages) :
                     d.messages[i].session_id = session_id}
        n == Cardinality(match)
        orders == {p \in [1..n -> match] :
                     /\ \A j, k \in 1..n : j # k => p[j] # p[k]
                     /\ \A j, k \in 1..n : j < k =>
                           d.messages[p[j]].created_at
                              >= d.messages[p[k]].created_at}
    IN {SubSeq(p, 1, Min(n, limit)) : p \in orders}

\* the characters of the snprintf format of one row
sRolePrefix == <<"{", "\"", "r", "o", "l", "e", "\"", ":", "\"">>
sContentPrefix ==
    <<"\"", ",", "\"", "c", "o", "n", "t", "e", "n", "t", "\"", ":", "\"">>
sRowSuffix == <<"\"", "}">>

\* the text session_store_get_history builds from the rows with these ids:
\* role and content are copied with %s
RECURSIVE history_text(_, _, _)
history_text(d, ids, first) ==
    IF ids = <<>> THEN <<"]">>
    ELSE LET m == d.messages[Head(ids)] IN
         (IF first THEN <<>> ELSE <<",">>)
         \o sRolePrefix \o m.role \o sContentPrefix \o m.content \o sRowSuffix
         \o history_text(d, Tail(ids), FALSE)

\* session_store_get_history: what it can return, as the ids of the rows
\* and the text built from them
session_store_get_history(d, session_id, limit) ==
    {[ids |-> ids, text |-> <<"[">> \o history_text(d, ids, TRUE)] :
        ids \in history_select(d, session_id,
                   IF limit > 0 THEN limit ELSE HISTORY_DEFAULT_LIMIT)}

MaxMessages == 3
MaxNow == 2

SessionIds == {"s1", "s2"}
sUser == <<"u", "s", "e", "r">>
sAssistant == <<"a", "s", "s", "i", "s", "t", "a", "n", "t">>
StoreRoles == {sUser, sAssistant}
StoreContents == {<<"h", "i">>}
HistoryLimits == {0, 1, 2}

\* session_store_open: the tables are there and empty
InitStore ==
    /\ \E fk \in BOOLEAN : db = [ZeroDb EXCEPT !.foreign_keys = fk]
    /\ now = 0
    /\ tool_ctx = ZeroToolCtx
    /\ call = [fn |-> "session_store"]
    /\ ret = [fn |-> NONE]

\* a second passes
StoreTick ==
    /\ call.fn = "session_store"
    /\ now < MaxNow
    /\ now' = now + 1
    /\ UNCHANGED <<db, tool_ctx, call, ret, rvars, avars, lvars, dvars, kvars>>

StoreCreate ==
    /\ call.fn = "session_store"
    /\ \E id \in SessionIds :
         \E r \in {session_store_create(db, id, "webchat", now)} :
            /\ db' = r.db
            /\ ret' = [fn |-> "session_store_create", id |-> r.id]
    /\ UNCHANGED <<now, tool_ctx, call, rvars, avars, lvars, dvars, kvars>>

StoreAddMessage ==
    /\ call.fn = "session_store"
    /\ Len(db.messages) < MaxMessages
    /\ \E id \in SessionIds, role \in StoreRoles, content \in StoreContents :
         \E r \in {session_store_add_message(db, id, role, content, now)} :
            /\ db' = r.db
            /\ ret' = [fn |-> "session_store_add_message", rc |-> r.rc,
                       session_id |-> id, at |-> now, before |-> db]
    /\ UNCHANGED <<now, tool_ctx, call, rvars, avars, lvars, dvars, kvars>>

StoreGetHistory ==
    /\ call.fn = "session_store"
    /\ \E id \in SessionIds, limit \in HistoryLimits :
         \E r \in session_store_get_history(db, id, limit) :
            ret' = [fn |-> "session_store_get_history", session_id |-> id,
                    limit |-> limit, ids |-> r.ids, text |-> r.text]
    /\ UNCHANGED <<db, now, tool_ctx, call, rvars, avars, lvars, dvars, kvars>>

\* the contents a client can store: text with a double quote, a backslash
\* or a newline in it
HistoryChars == {"a", "\"", "\\", LF}
HistoryContents ==
    {<<c>> : c \in HistoryChars} \cup {<<c, e>> : c, e \in HistoryChars}

\* a store with one session and one or two messages of these contents, as
\* session_store_create and session_store_add_message leave it
InitHistory ==
    /\ \E n \in 1..2 :
         \E roles \in [1..n -> StoreRoles], contents \in [1..n -> HistoryContents] :
            db = [sessions |-> {[id |-> "s1", channel_id |-> "webchat",
                                 created_at |-> 0, updated_at |-> 0]},
                  messages |-> [i \in 1..n |->
                                   [id |-> i, session_id |-> "s1",
                                    role |-> roles[i], content |-> contents[i],
                                    created_at |-> 0]],
                  foreign_keys |-> FALSE]
    /\ now = 0
    /\ tool_ctx = ZeroToolCtx
    /\ call = [fn |-> "session_store"]
    /\ ret = [fn |-> NONE]

(***************************************************************************)
(* The tool registry.  tool_ctx is the kelp_tool_ctx: tools, the kelp_map  *)
(* from names to entries as the sequence of its pairs, and tool_count.     *)
(***************************************************************************)

\* kelp_map_has
kelp_map_has(map, key) == \E i \in 1..Len(map) : map[i].key = key

\* kelp_map_del: the pairs under the key are taken out
kelp_map_del(map, key) == SelectSeq(map, LAMBDA e : e.key # key)

\* kelp_map_set: the value under the key is replaced, or a pair added
kelp_map_set(map, key, value) ==
    IF kelp_map_has(map, key)
    THEN [i \in 1..Len(map) |->
             IF map[i].key = key THEN [key |-> key, value |-> value] ELSE map[i]]
    ELSE Append(map, [key |-> key, value |-> value])

\* the tool_entry_t kelp_tool_register makes of a definition: "" for a
\* missing description, "{}" for a missing schema
tool_entry(def) ==
    [name |-> def.name[1],
     description |-> IF def.description = <<>> THEN "" ELSE def.description[1],
     params_json |-> IF def.params_json = <<>> THEN "{}" ELSE def.params_json[1],
     exec |-> def.exec[1],
     requires_sandbox |-> def.requires_sandbox,
     requires_confirmation |-> def.requires_confirmation]

\* a registration that does not look for an entry of the same name first
kelp_tool_register_blind(ctx, def) ==
    IF def.name = <<>> \/ def.exec = <<>> THEN [ctx |-> ctx, rc |-> -1]
    ELSE [ctx |-> [tools |-> kelp_map_set(ctx.tools, def.name[1], tool_entry(def)),
                   tool_count |-> ctx.tool_count + 1],
          rc |-> 0]

\* kelp_tool_register (calloc, strdup and kelp_map_set succeed)
kelp_tool_register(ctx, def) ==
    IF def.name = <<>> \/ def.exec = <<>> THEN [ctx |-> ctx, rc |-> -1]
    ELSE LET c == IF kelp_map_has(ctx.tools, def.name[1])
                  THEN [tools |-> kelp_map_del(ctx.tools, def.name[1]),
                        tool_count |-> ctx.tool_count - 1]
                  ELSE ctx
         IN [ctx |-> [tools |-> kelp_map_set(c.tools, def.name[1], tool_entry(def)),
                      tool_count |-> c.tool_count + 1],
             rc |-> 0]

sSchema == "{\"type\":\"object\"}"

\* cJSON_Parse of a parameter schema: <<>> (NULL) for text that is not JSON
schema_parse(params_json) ==
    IF params_json = "{}" THEN <<JObj(<<>>)>>
    ELSE IF params_json = sSchema
    THEN <<JObj(<<[k |-> "type", v |-> JStr("object")]>>)>>
    ELSE <<>>

\* kelp_tool_get_definitions_json: the array it prints, one object for each
\* pair kelp_map_iter visits
kelp_tool_get_definitions_json(ctx) ==
    JArr([i \in 1..Len(ctx.tools) |->
             LET entry == ctx.tools[i].value
                 schema == schema_parse(entry.params_json) IN
             JObj(<<[k |-> "name", v |-> JStr(entry.name)],
                    [k |-> "description", v |-> JStr(entry.description)],
                    [k |-> "input_schema", v |->
                        IF schema # <<>> THEN schema[1] ELSE JObj(<<>>)]>>)])

MaxRegistrations == 3

\* the definitions callers register: two names, with and without
\* description and schema, and two that kelp_tool_register refuses
ToolDefs ==
    {[name |-> <<"bash">>, description |-> <<"run a command">>,
      params_json |-> <<sSchema>>, exec |-> <<"bash_exec">>,
      requires_sandbox |-> TRUE, requires_confirmation |-> TRUE],
     [name |-> <<"bash">>, description |-> <<>>, params_json |-> <<>>,
      exec |-> <<"desktop_tool_noop">>,
      requires_sandbox |-> FALSE, requires_confirmation |-> FALSE],
     [name |-> <<"bash">>, description |-> <<"run">>,
      params_json |-> <<"oops">>, exec |-> <<"bash_exec">>,
      requires_sandbox |-> TRUE, requires_confirmation |-> FALSE],
     [name |-> <<"file_read">>, description |-> <<"read a file">>,
      params_json |-> <<sSchema>>, exec |-> <<"file_read_exec">>,
      requires_sandbox |-> FALSE, requires_confirmation |-> FALSE],
     [name |-> <<"file_read">>, description |-> <<"read">>,
      params_json |-> <<"{}">>, exec |-> <<"desktop_tool_noop">>,
      requires_sandbox |-> TRUE, requires_confirmation |-> FALSE],
     [name |-> <<>>, description |-> <<"nameless">>, params_json |-> <<>>,
      exec |-> <<"bash_exec">>,
      requires_sandbox |-> FALSE, requires_confirmation |-> FALSE],
     [name |-> <<"web_fetch">>, description |-> <<"fetch">>, params_json |-> <<>>,
      exec |-> <<>>,
      requires_sandbox |-> FALSE, requires_confirmation |-> FALSE]}

\* kelp_tool_ctx_new; call.registered keeps the definitions registered with
\* success, in order
InitTools ==
    /\ tool_ctx = ZeroToolCtx
    /\ db = ZeroDb
    /\ now = 0
    /\ call = [fn |-> "kelp_tool", registered |-> <<>>]
    /\ ret = [fn |-> NONE]

ToolRegister ==
    /\ call.fn = "kelp_tool"
    /\ Len(call.registered) < MaxRegistrations
    /\ \E def \in ToolDefs :
         \E r \in {kelp_tool_register(tool_ctx, def)} :
            /\ tool_ctx' = r.ctx
            /\ call' = [call EXCEPT !.registered =
                           IF r.rc = 0 THEN Append(@, def) ELSE @]
            /\ ret' = [fn |-> "kelp_tool_register", rc |-> r.rc]
    /\ UNCHANGED <<db, now, rvars, avars, lvars, dvars, kvars>>

ToolGetDefinitions ==
    /\ call.fn = "kelp_tool"
    /\ \E r \in {kelp_tool_get_definitions_json(tool_ctx)} :
          ret' = [fn |-> "kelp_tool_get_definitions_json", json |-> r,
                  text |-> JsonPrint(r)]
    /\ UNCHANGED <<tool_ctx, db, now, call, rvars, avars, lvars, dvars, kvars>>

\* kelp_map_get: the value under the key, <<>> (NULL) when there is none
kelp_map_get(map, key) ==
    IF kelp_map_has(map, key)
    THEN <<map[CHOOSE i \in 1..Len(map) : map[i].key = key].value>>
    ELSE <<>>

\* kelp_tool_result_t after memset
ZeroToolResult == [output |-> <<>>, is_error |-> FALSE, exit_code |-> 0]

\* an execution that marks the result an error when the executor returned
\* a code other than 0
kelp_tool_execute_judging(ctx, name, args_json, outcome) ==
    LET entry == kelp_map_get(ctx.tools, name) IN
    IF entry = <<>>
    THEN [ctx |-> ctx, calls |-> <<>>, rc |-> -1,
          result |-> [output |-> <<"error: unknown tool '" \o name \o "'">>,
                      is_error |-> TRUE, exit_code |-> -1]]
    ELSE [ctx |-> ctx,
          calls |-> <<[exec |-> entry[1].exec,
                       args_json |-> IF args_json = <<>> THEN "{}"
                                     ELSE args_json[1]]>>,
          rc |-> outcome.rc,
          result |-> [outcome.result EXCEPT !.is_error = @ \/ outcome.rc # 0]]

\* kelp_tool_execute with a name and a result to fill; `outcome` is what the
\* executor, if one is called, returns and leaves in the result.  calls are
\* the executor invocations made.
kelp_tool_execute(ctx, name, args_json, outcome) ==
    LET entry == kelp_map_get(ctx.tools, name) IN
    IF entry = <<>>
    THEN [ctx |-> ctx, calls |-> <<>>, rc |-> -1,
          result |-> [output |-> <<"error: unknown tool '" \o name \o "'">>,
                      is_error |-> TRUE, exit_code |-> -1]]
    ELSE [ctx |-> ctx,
          calls |-> <<[exec |-> entry[1].exec,
                       args_json |-> IF args_json = <<>> THEN "{}"
                                     ELSE args_json[1]]>>,
          rc |-> outcome.rc,
          result |-> outcome.result]

ToolNames == {"bash", "file_read", "web_fetch"}
ToolArgs == {<<>>, <<"{\"command\":\"ls\"}">>}

\* what an executor can return and leave in the result
ExecOutcomes ==
    {[rc |-> 0, result |-> [output |-> <<"ok">>, is_error |-> FALSE, exit_code |-> 0]],
     [rc |-> 0, result |-> [output |-> <<"no such file">>, is_error |-> TRUE,
                            exit_code |-> 2]],
     [rc |-> -1, result |-> [output |-> <<>>, is_error |-> FALSE, exit_code |-> 0]],
     [rc |-> 1, result |-> [output |-> <<"[forwarded to desktop]">>,
                            is_error |-> FALSE, exit_code |-> 0]]}

ToolExecute ==
    /\ call.fn = "kelp_tool"
    /\ \E name \in ToolNames, args \in ToolArgs, outcome \in ExecOutcomes :
         \E r \in {kelp_tool_execute(tool_ctx, name, args, outcome)} :
            /\ tool_ctx' = r.ctx
            /\ ret' = [fn |-> "kelp_tool_execute", name |-> name, args_json |-> args,
                       outcome |-> outcome, calls |-> r.calls, rc |-> r.rc,
                       result |-> r.result, before |-> tool_ctx]
    /\ UNCHANGED <<db, now, call, rvars, avars, lvars, dvars, kvars>>

(***************************************************************************)
(* The chat panel of the desktop (theme.c).  The UI thread runs            *)
(* send_message, kd_chat_send_text and kd_chat_update one after the other; *)
(* each message sent starts a detached thread that runs                    *)
(* response_thread_fn.                                                     *)
(*   g_chat    waiting, pending_response (empty: NULL), response_ready,    *)
(*             response_error and messages are the fields of the code;     *)
(*             unlocked tells that response_ready or response_error was    *)
(*             written without async_lock, dropped that a                  *)
(*             pending_response was overwritten before it was shown (both  *)
(*             not in the code)                                            *)
(*   workers   per message sent, where its thread is: "none", "running"    *)
(*             or "exited"                                                 *)
(* A critical section under async_lock is one step.                        *)
(***************************************************************************)
MaxSends == 3

Sends == 1..MaxSends

KD_MSG_USER == "KD_MSG_USER"
KD_MSG_ASSISTANT == "KD_MSG_ASSISTANT"
KD_MSG_ERROR == "KD_MSG_ERROR"

\* kd_chat_init (the welcome message is left out of messages)
ZeroChat ==
    [waiting |-> FALSE, pending_response |-> <<>>, response_ready |-> FALSE,
     response_error |-> FALSE, messages |-> <<>>, unlocked |-> FALSE,
     dropped |-> FALSE]

DesktopIdle ==
    /\ g_chat = ZeroChat
    /\ workers = [w \in Sends |-> "none"]

InitDesktop == DesktopIdle

\* kd_chat_add_message
kd_chat_add_message(g, type, text) ==
    [g EXCEPT !.messages = Append(@, [type |-> type, text |-> text])]

\* the next thread to start
NextWorker == CHOOSE w \in Sends : workers[w] = "none" /\ \A v \in Sends : v < w => workers[v] # "none"

\* the part send_message and kd_chat_send_text share: the user's message,
\* the flags (written without async_lock) and pthread_create, which
\* succeeds (created) or not
start_response(created) ==
    LET g1 == kd_chat_add_message(g_chat, KD_MSG_USER, "hi")
        g2 == [g1 EXCEPT !.waiting = TRUE, !.response_ready = FALSE,
                         !.response_error = FALSE, !.unlocked = TRUE]
    IN IF created
       THEN /\ g_chat' = g2
            /\ workers' = [workers EXCEPT ![NextWorker] = "running"]
       ELSE /\ g_chat' = [kd_chat_add_message(g2, KD_MSG_ERROR,
                              "Failed to start response thread.")
                            EXCEPT !.waiting = FALSE]
            /\ workers' = [workers EXCEPT ![NextWorker] = "exited"]

\* send_message: nothing is sent while a response is awaited
send_message ==
    /\ \E w \in Sends : workers[w] = "none"
    /\ ~g_chat.waiting
    /\ \E created \in BOOLEAN : start_response(created)
    /\ UNCHANGED <<rvars, avars, lvars, call, ret, svars, kvars>>

\* kd_chat_send_text: the same without the test of waiting
kd_chat_send_text ==
    /\ \E w \in Sends : workers[w] = "none"
    /\ \E created \in BOOLEAN : start_response(created)
    /\ UNCHANGED <<rvars, avars, lvars, call, ret, svars, kvars>>

\* what rpc_call and the parse of its result give response_thread_fn
RpcOutcomes ==
    {[text |-> "No response from gateway.", error |-> TRUE],
     [text |-> "unknown error", error |-> TRUE],
     [text |-> "pong", error |-> FALSE]}

\* response_thread_fn of the w-th message: the call, then under async_lock
\* pending_response, response_error and response_ready
response_thread_fn(w) ==
    /\ workers[w] = "running"
    /\ \E out \in RpcOutcomes :
          g_chat' = [g_chat EXCEPT
                        !.pending_response = <<[text |-> out.text, worker |-> w]>>,
                        !.response_error = out.error,
                        !.response_ready = TRUE,
                        !.dropped = @ \/ g_chat.pending_response # <<>>]
    /\ workers' = [workers EXCEPT ![w] = "exited"]
    /\ UNCHANGED <<rvars, avars, lvars, call, ret, svars, kvars>>

\* kd_chat_update, the response part: under async_lock, when waiting
kd_chat_update ==
    /\ g_chat.waiting
    /\ g_chat.response_ready
    /\ LET g1 == [g_chat EXCEPT !.waiting = FALSE]
           g2 == IF g1.pending_response = <<>> THEN g1
                 ELSE [kd_chat_add_message(g1,
                          IF g1.response_error THEN KD_MSG_ERROR
                          ELSE KD_MSG_ASSISTANT,
                          g1.pending_response[1].text)
                         EXCEPT !.pending_response = <<>>]
       IN g_chat' = g2
    /\ UNCHANGED <<workers, rvars, avars, lvars, call, ret, svars, kvars>>

(***************************************************************************)
(* The message ring of /dev/oclaw (ring_buf, ring_head, ring_tail,         *)
(* ring_lock) and the processes that read and write the device.            *)
(*   ring_buf   per slot the message it holds (0: data is NULL); a message *)
(*              is known by the number of its store, 1 being the first     *)
(*   procs      per process where it is in openclaw_chardev_write or       *)
(*              openclaw_chardev_read, the O_NONBLOCK flag of its file and *)
(*              its local next                                             *)
(*   ring_log   not in the code: the calls left to the run, the number of  *)
(*              messages stored, the messages dequeued in their order,     *)
(*              whether the lock was released by a process not holding it  *)
(*              and whether a store freed a message not yet read           *)
(***************************************************************************)
RING_SIZE == 64

MaxRingCalls == 4

Writers == {"w1", "w2"}
Readers == {"r1", "r2"}
Slots == 0..(RING_SIZE - 1)

FREE == "free"

IdleProc == [pc |-> "idle", nonblock |-> FALSE, next |-> 0]

KernelIdle ==
    /\ ring_buf = [i \in Slots |-> 0]
    /\ ring_head = 0
    /\ ring_tail = 0
    /\ ring_lock = FREE
    /\ procs = [p \in Writers \cup Readers |-> IdleProc]
    /\ ring_log = [left |-> 0, stored |-> 0, delivered |-> <<>>,
                   bad_unlock |-> FALSE, overwritten |-> FALSE]

\* how many messages the ring holds when the run starts: none, or so many
\* that it is full or one short of it
RingFills == {0, RING_SIZE - 2, RING_SIZE - 1}

\* the module after k writes and no read
InitKernel ==
    \E k \in RingFills :
       /\ ring_buf = [i \in Slots |-> IF i < k THEN i + 1 ELSE 0]
       /\ ring_head = k
       /\ ring_tail = 0
       /\ ring_lock = FREE
       /\ procs = [p \in Writers \cup Readers |-> IdleProc]
       /\ ring_log = [left |-> MaxRingCalls, stored |-> k, delivered |-> <<>>,
                      bad_unlock |-> FALSE, overwritten |-> FALSE]

\* spin_unlock_irqrestore(lock, flags) by p: the lock is free afterwards,
\* whoever held it
spin_unlock(p) ==
    /\ ring_lock' = FREE
    /\ ring_log' = [ring_log EXCEPT !.bad_unlock = @ \/ ring_lock # p]

\* openclaw_chardev_write by p, step by step
openclaw_chardev_write(p) ==
    \/ \* the call: count > 0, the message is copied from the user
       /\ procs[p].pc = "idle" /\ ring_log.left > 0
       /\ \E nb \in BOOLEAN :
             procs' = [procs EXCEPT ![p] = [pc |-> "lock", nonblock |-> nb,
                                            next |-> 0]]
       /\ ring_log' = [ring_log EXCEPT !.left = @ - 1]
       /\ UNCHANGED <<ring_buf, ring_head, ring_tail, ring_lock>>
    \/ \* spin_lock_irqsave; next = (*head + 1) % RING_SIZE
       /\ procs[p].pc = "lock" /\ ring_lock = FREE
       /\ ring_lock' = p
       /\ LET next == (ring_head + 1) % RING_SIZE IN
          procs' = [procs EXCEPT ![p].next = next,
                                 ![p].pc = IF next = ring_tail THEN "full"
                                           ELSE "store"]
       /\ UNCHANGED <<ring_buf, ring_head, ring_tail, ring_log>>
    \/ \* ring full: unlock; -EAGAIN with O_NONBLOCK
       /\ procs[p].pc = "full"
       /\ spin_unlock(p)
       /\ procs' = [procs EXCEPT ![p].pc = IF procs[p].nonblock THEN "idle"
                                           ELSE "unlock_again"]
       /\ UNCHANGED <<ring_buf, ring_head, ring_tail>>
    \/ \* "Wait for space": the second unlock
       /\ procs[p].pc = "unlock_again"
       /\ spin_unlock(p)
       /\ procs' = [procs EXCEPT ![p].pc = "wait"]
       /\ UNCHANGED <<ring_buf, ring_head, ring_tail>>
    \/ \* wait_event_interruptible: the condition holds
       /\ procs[p].pc = "wait"
       /\ (ring_head + 1) % RING_SIZE # ring_tail
       /\ procs' = [procs EXCEPT ![p].pc = "relock"]
       /\ UNCHANGED <<ring_buf, ring_head, ring_tail, ring_lock, ring_log>>
    \/ \* wait_event_interruptible: a signal, -ERESTARTSYS
       /\ procs[p].pc = "wait"
       /\ procs' = [procs EXCEPT ![p].pc = "idle"]
       /\ UNCHANGED <<ring_buf, ring_head, ring_tail, ring_lock, ring_log>>
    \/ \* spin_lock_irqsave after the wait; next is computed again
       /\ procs[p].pc = "relock" /\ ring_lock = FREE
       /\ ring_lock' = p
       /\ procs' = [procs EXCEPT ![p].next = (ring_head + 1) % RING_SIZE,
                                 ![p].pc = "store"]
       /\ UNCHANGED <<ring_buf, ring_head, ring_tail, ring_log>>
    \/ \* kfree(ring[*head].data); the slot is filled; *head = next
       /\ procs[p].pc = "store"
       /\ ring_buf' = [ring_buf EXCEPT ![ring_head] = ring_log.stored + 1]
       /\ ring_head' = procs[p].next
       /\ ring_log' = [ring_log EXCEPT
                          !.stored = @ + 1,
                          !.overwritten = @ \/ ring_buf[ring_head] # 0]
       /\ procs' = [procs EXCEPT ![p].pc = "unlock"]
       /\ UNCHANGED <<ring_tail, ring_lock>>
    \/ \* spin_unlock_irqrestore; wake_up_interruptible; return count
       /\ procs[p].pc = "unlock"
       /\ spin_unlock(p)
       /\ procs' = [procs EXCEPT ![p].pc = "idle"]
       /\ UNCHANGED <<ring_buf, ring_head, ring_tail>>

\* openclaw_chardev_read by p (no partial read is pending), step by step
openclaw_chardev_read(p) ==
    \/ \* the call
       /\ procs[p].pc = "idle" /\ ring_log.left > 0
       /\ \E nb \in BOOLEAN :
             procs' = [procs EXCEPT ![p] = [pc |-> IF nb THEN "check" ELSE "wait",
                                            nonblock |-> nb, next |-> 0]]
       /\ ring_log' = [ring_log EXCEPT !.left = @ - 1]
       /\ UNCHANGED <<ring_buf, ring_head, ring_tail, ring_lock>>
    \/ \* O_NONBLOCK: lock, test, unlock; -EAGAIN when the ring is empty
       /\ procs[p].pc = "check" /\ ring_lock = FREE
       /\ procs' = [procs EXCEPT ![p].pc = IF ring_head = ring_tail THEN "idle"
                                           ELSE "lock"]
       /\ UNCHANGED <<ring_buf, ring_head, ring_tail, ring_lock, ring_log>>
    \/ \* wait_event_interruptible: the condition holds
       /\ procs[p].pc = "wait"
       /\ ring_head # ring_tail
       /\ procs' = [procs EXCEPT ![p].pc = "lock"]
       /\ UNCHANGED <<ring_buf, ring_head, ring_tail, ring_lock, ring_log>>
    \/ \* wait_event_interruptible: a signal
       /\ procs[p].pc = "wait"
       /\ procs' = [procs EXCEPT ![p].pc = "idle"]
       /\ UNCHANGED <<ring_buf, ring_head, ring_tail, ring_lock, ring_log>>
    \/ \* spin_lock_irqsave
       /\ procs[p].pc = "lock" /\ ring_lock = FREE
       /\ ring_lock' = p
       /\ procs' = [procs EXCEPT ![p].pc = "dequeue"]
       /\ UNCHANGED <<ring_buf, ring_head, ring_tail, ring_log>>
    \/ \* the ring is empty after all: unlock, return 0
       /\ procs[p].pc = "dequeue"
       /\ ring_head = ring_tail
       /\ spin_unlock(p)
       /\ procs' = [procs EXCEPT ![p].pc = "idle"]
       /\ UNCHANGED <<ring_buf, ring_head, ring_tail>>
    \/ \* the message at *tail is taken, *tail advances, unlock
       /\ procs[p].pc = "dequeue"
       /\ ring_head # ring_tail
       /\ ring_buf' = [ring_buf EXCEPT ![ring_tail] = 0]
       /\ ring_tail' = (ring_tail + 1) % RING_SIZE
       /\ ring_lock' = FREE
       /\ ring_log' = [ring_log EXCEPT
                          !.delivered = Append(@, ring_buf[ring_tail]),
                          !.bad_unlock = @ \/ ring_lock # p]
       /\ procs' = [procs EXCEPT ![p].pc = "idle"]
       /\ UNCHANGED ring_head

DeviceWrite ==
    /\ \E p \in Writers : openclaw_chardev_write(p)
    /\ UNCHANGED <<rvars, avars, lvars, call, ret, svars, dvars>>

DeviceRead ==
    /\ \E p \in Readers : openclaw_chardev_read(p)
    /\ UNCHANGED <<rvars, avars, lvars, call, ret, svars, dvars>>

(***************************************************************************)
(* The specifications.                                                     *)
(***************************************************************************)
vars == <<rvars, avars, lvars, fvars>>

\* no function is under study
\* no store is open, no tool is registered
StoreIdle ==
    /\ db = ZeroDb
    /\ now = 0
    /\ tool_ctx = ZeroToolCtx

CallIdle ==
    /\ call = [fn |-> NONE]
    /\ ret = [done |-> FALSE]
    /\ StoreIdle
    /\ DesktopIdle
    /\ KernelIdle

ReactorIdle ==
    /\ InitReactor
    /\ auth_token = <<>>
    /\ catalog = {}
    /\ quota = [reqs |-> 0, spur |-> 0]

Init ==
    /\ InitReactor
    /\ catalog = ReactorIds
    /\ quota = [reqs |-> MaxRequests, spur |-> MaxSpurious]
    /\ AuthIdle
    /\ LifeIdle
    /\ CallIdle

Next == ReactorNext

Spec == Init /\ [][Next]_vars

InitLimits ==
    /\ InitReactor
    /\ catalog = WireIds
    /\ quota = [reqs |-> 1, spur |-> MaxSpurious]
    /\ AuthIdle
    /\ LifeIdle
    /\ CallIdle

SpecLimits == InitLimits /\ [][Next]_vars

\* the gateway with the WebSocket route registered
InitWs ==
    /\ connections = [fd \in Fds |-> NULL]
    /\ active_connections = 0
    /\ total_requests = 0
    /\ parsed_requests = 0
    /\ auth_token = <<>>
    /\ gw_routes = WsRoutes
    /\ max_fd = GW_INITIAL_MAX_FD
    /\ socks = [fd \in Fds |-> FreeSock]
    /\ backlog = 0
    /\ ev = NoEvent
    /\ catalog = {"ws", "health", "hook5"}
    /\ quota = [reqs |-> MaxRequests, spur |-> MaxSpurious]
    /\ AuthIdle
    /\ LifeIdle
    /\ CallIdle

SpecWs == InitWs /\ [][Next]_vars

InitAuthSpec == InitAuth /\ ReactorIdle /\ LifeIdle /\ CallIdle

NextAuth == AuthCheck

SpecAuth == InitAuthSpec /\ [][NextAuth]_vars

InitLifeSpec == InitLife /\ ReactorIdle /\ AuthIdle /\ CallIdle

NextLife ==
    \/ MainStep
    \/ \E sig \in StopSignals : signal_handler(sig)

\* main() is not held up for ever: every call it makes returns, epoll_wait
\* after its timeout at the latest
SpecLife == InitLifeSpec /\ [][NextLife]_vars /\ WF_vars(MainStep)

OthersIdle ==
    ReactorIdle /\ AuthIdle /\ LifeIdle /\ StoreIdle /\ DesktopIdle /\ KernelIdle

InitUpgradeSpec == InitUpgrade /\ OthersIdle

NextUpgrade == UpgradeCall

SpecUpgrade == InitUpgradeSpec /\ [][NextUpgrade]_vars

InitFrameSpec == InitFrame /\ OthersIdle

NextFrame == FrameRead \/ FrameSend

SpecFrame == InitFrameSpec /\ [][NextFrame]_vars

InitRouterSpec == InitRouter /\ OthersIdle

NextRouter == RouterCall \/ MatchCall

SpecRouter == InitRouterSpec /\ [][NextRouter]_vars

InitResponseSpec == InitResponse /\ OthersIdle

NextResponse == SetStatus \/ AddHeader \/ SetBody \/ SetJson \/ Send

SpecResponse == InitResponseSpec /\ [][NextResponse]_vars

InitChatSpec == InitChat /\ OthersIdle

NextChat == ChatCall \/ HookCall

SpecChat == InitChatSpec /\ [][NextChat]_vars

InitSseSpec == InitSse /\ OthersIdle

NextSse == SseFeed

SpecSse == InitSseSpec /\ [][NextSse]_vars

InitStoreSpec ==
    InitStore /\ ReactorIdle /\ AuthIdle /\ LifeIdle /\ DesktopIdle /\ KernelIdle

NextStore == StoreTick \/ StoreCreate \/ StoreAddMessage \/ StoreGetHistory

SpecStore == InitStoreSpec /\ [][NextStore]_vars

InitHistorySpec ==
    InitHistory /\ ReactorIdle /\ AuthIdle /\ LifeIdle /\ DesktopIdle /\ KernelIdle

NextHistory == StoreGetHistory

SpecHistory == InitHistorySpec /\ [][NextHistory]_vars

InitToolsSpec ==
    InitTools /\ ReactorIdle /\ AuthIdle /\ LifeIdle /\ DesktopIdle /\ KernelIdle

NextTools == ToolRegister \/ ToolGetDefinitions \/ ToolExecute

SpecTools == InitToolsSpec /\ [][NextTools]_vars

InitDesktopSpec ==
    InitDesktop /\ ReactorIdle /\ AuthIdle /\ LifeIdle /\ StoreIdle /\ KernelIdle
       /\ call = [fn |-> NONE] /\ ret = [done |-> FALSE]

NextDesktop ==
    \/ send_message
    \/ kd_chat_send_text
    \/ \E w \in Sends : response_thread_fn(w)
    \/ kd_chat_update

SpecDesktop == InitDesktopSpec /\ [][NextDesktop]_vars

InitRingSpec ==
    InitKernel /\ ReactorIdle /\ AuthIdle /\ LifeIdle /\ StoreIdle /\ DesktopIdle
       /\ call = [fn |-> NONE] /\ ret = [done |-> FALSE]

NextRing == DeviceWrite \/ DeviceRead

SpecRing == InitRingSpec /\ [][NextRing]_vars

\* the reactor with clients that send /health requests, with and without
\* Connection: close, and at most one data-less event
InitTable ==
    /\ InitReactor
    /\ catalog = {"health", "health_close"}
    /\ quota = [reqs |-> 2, spur |-> 1]
    /\ AuthIdle
    /\ LifeIdle
    /\ CallIdle

SpecTable == InitTable /\ [][Next]_vars

\* the reactor with a client that sends one request, /health or one of
\* those whose body is at the limit of the read buffer
InitBuffer ==
    /\ InitReactor
    /\ catalog = {"health", "body_fit", "body_max", "body_over"}
    /\ quota = [reqs |-> 1, spur |-> MaxSpurious]
    /\ AuthIdle
    /\ LifeIdle
    /\ CallIdle

SpecBuffer == InitBuffer /\ [][Next]_vars


(***************************************************************************)
(* What the claims speak of, read off the request as the client sent it.   *)
(***************************************************************************)
\* the wire request of the event ev is about
EvWire == Wire(ev.wire)

\* header lines of w whose key is `key`, whatever the case
LinesNamed(w, key) ==
    {i \in 1..Len(w.headers) : strcasecmp(w.headers[i].key, key) = 0}

\* the Content-Length the request declares (0 when it declares none)
DeclaredLength(w) ==
    IF LinesNamed(w, sContentLength) = {} THEN 0
    ELSE atol(w.headers[CHOOSE i \in LinesNamed(w, sContentLength) :
                  \A j \in LinesNamed(w, sContentLength) : i <= j].value)

\* the request exceeds one of the declared bounds
Exceeds(w) ==
    \/ UrlLen(w) >= GW_MAX_URL_LEN
    \/ \E i \in 1..Len(w.headers) : Len(w.headers[i].key) >= HDR_KEY_SIZE
    \/ \E i \in 1..Len(w.headers) : Len(w.headers[i].value) >= HDR_VALUE_SIZE
    \/ Len(w.headers) > GW_MAX_HEADERS
    \/ DeclaredLength(w) > GW_MAX_BODY_LEN

\* a well-formed request within every bound
InBounds(w) ==
    /\ w.line = "ok"
    /\ ~Exceeds(w)
    /\ w.body = DeclaredLength(w)

\* the request carries Connection: close
HasClose(w) ==
    \E i \in LinesNamed(w, sConnection) :
        strcasecmp(w.headers[i].value, sClose) = 0

\* the request carries Authorization: Bearer <token>
HasBearer(w, token) ==
    \E i \in LinesNamed(w, sAuthorization) :
        w.headers[i].value = sBearer \o token


(***************************************************************************)
(* The claims.                                                             *)
(***************************************************************************)
\* C1: when http_parse_request returns -1 in a readiness event, the event
\* ends with the connection closed: its slot is NULL, the descriptor is
\* closed, active_connections is one less than before, and no handler ran.
C1_ParseErrorCloses ==
    (ev.kind = "data" /\ ev.parsed /\ ev.parse_rc = -1) =>
        /\ connections[ev.fd] = NULL
        /\ ~socks[ev.fd].open
        /\ active_connections = ev.pre_active - 1
        /\ ~ev.dispatched

\* C2: on a connection that has answered a request, a later request is
\* handed to the parser only when every byte of that answer was written.
C2_ParseAfterFlush ==
    (ev.kind = "data" /\ ev.parsed /\ ev.prev.seq > 0 /\ ev.seq > ev.prev.seq) =>
        ev.prev.written = ev.prev.total

\* C3: http_response_send does not report an error when write(2) stopped
\* it with EAGAIN, after a short write or at once.
C3_EagainIsNoError ==
    (ev.kind = "data" /\ ev.dispatched /\ ev.send_errno = "EAGAIN") =>
        ev.send_rc = OC_OK

\* C4: when the write of the response failed with EPIPE, the event ends
\* with the connection closed and out of the table.
C4_WriteErrorCloses ==
    (ev.kind = "data" /\ ev.dispatched /\ ev.send_errno = "EPIPE") =>
        /\ connections[ev.fd] = NULL
        /\ ~socks[ev.fd].open

\* C5: a request that exceeds a declared bound is never parsed as complete
\* and never dispatched.
C5_ExceedanceNeverComplete ==
    (ev.kind = "data" /\ ev.parsed /\ Exceeds(EvWire)) =>
        /\ ev.parse_rc # 0
        /\ ~ev.dispatched

\* C6: while the bytes of a well-formed request within the bounds are read
\* and parsed, the read does not fail for want of buffer, the parser does
\* not return -1, and a complete parse has body_len = Content-Length.
C6_InBoundsCompletes ==
    (ev.kind = "data" /\ ev.nread > 0 /\ InBounds(EvWire)) =>
        /\ ev.read_why # "too_large"
        /\ ev.parsed => ev.parse_rc # -1
        /\ ev.dispatched => ev.body_len = DeclaredLength(EvWire)

\* C7: after a dispatch the connection is closed when the request carried
\* Connection: close; otherwise it is open in ReadingHeaders with
\* read_len 0 and a cleared request, and the request dispatched was a new
\* one, not the one served before on the connection.
C7_AfterDispatch ==
    (ev.kind = "data" /\ ev.dispatched) =>
        IF HasClose(EvWire)
        THEN connections[ev.fd] = NULL
        ELSE /\ connections[ev.fd] # NULL
             /\ connections[ev.fd].state = CONN_READING_HEADERS
             /\ connections[ev.fd].read_len = 0
             /\ connections[ev.fd].request = ZeroRequest
             /\ ev.seq > ev.prev.seq

\* C8: with a token configured, a request without Authorization: Bearer
\* <token> reaches no handler and is answered 401.
C8_NoHandlerWithoutToken ==
    (ev.kind = "data" /\ ev.dispatched /\ auth_token # <<>>
        /\ ~HasBearer(EvWire, auth_token)) =>
        /\ ev.handler = NONE
        /\ ev.status = 401

\* C9: auth_gateway_check returns OC_OK exactly when the token is NULL or
\* empty or some header named Authorization (in any case) has the value
\* "Bearer " followed by the token and nothing else; otherwise it returns
\* OC_ERR_AUTH; the request is as it was before the call.
C9_AuthExact ==
    auth_called =>
        /\ auth_rc \in {OC_OK, OC_ERR_AUTH}
        /\ auth_rc = OC_OK <=>
              \/ expected_token \in {NULLSTR, <<>>}
              \/ \E i \in 1..Len(req_in.headers) :
                    /\ [k \in 1..Len(req_in.headers[i].key) |->
                           tolower(req_in.headers[i].key[k])]
                         = <<"a","u","t","h","o","r","i","z","a","t","i","o","n">>
                    /\ req_in.headers[i].value = sBearer \o expected_token
        /\ req = req_in

\* C9, its case: the call returned OC_OK for a token that is set, on the
\* second of two Authorization headers, the first one carrying the token
\* with a trailing character.
C9_Witness ==
    /\ auth_called
    /\ auth_rc = OC_OK
    /\ expected_token = sTok
    /\ req.header_count = 2
    /\ req.headers[1] = Hdr(sAuthorization, sBearer \o sTokX)
    /\ req.headers[2] =
          Hdr(<<"a","u","t","h","o","r","i","z","a","t","i","o","n">>,
              sBearer \o sTok)

\* C10: once SIGINT or SIGTERM has arrived with the handlers installed and
\* g_gateway set, gateway_start eventually returns OC_OK.
C10_StopNeverLost ==
    stop_requested ~> (pc = "returned" /\ start_rc = <<OC_OK>>)

\* C11: ws_handle_upgrade leaves the connection in WebSocket state exactly
\* when the request was a GET carrying Sec-WebSocket-Key and the whole 101
\* response was written; in every other case state and is_websocket are
\* as they were.
C11_UpgradeIff ==
    (call.fn = "ws_handle_upgrade" /\ ret.done) =>
        LET ok == /\ call.method = sGET
                  /\ \E i \in 1..Len(call.req.headers) :
                        strcasecmp(call.req.headers[i].key, sSecWebSocketKey) = 0
                  /\ ret.n = UpgradeResponseLen
        IN /\ (ret.conn.state = CONN_WEBSOCKET) <=> ok
           /\ ret.conn.is_websocket <=> ok
           /\ ~ok => ret.conn = call.conn

\* C12: ws_read_frame gives no payload for a frame whose mask bit is clear:
\* whatever its opcode and length, the frame is rejected with an error.
C12_UnmaskedRejected ==
    (call.fn = "ws_frame" /\ ret.read # <<>> /\ ~call.masked) =>
        /\ ret.read[1].rc = -1
        /\ ret.read[1].payload = <<>>

\* C13: ws_read_frame, on the whole text frame that carries p masked with
\* k, returns the text opcode, the length of p and the bytes of p; and
\* ws_send_text of p on a WebSocket connection whose socket takes the frame
\* returns 0, and whenever it returns 0 it has put on the socket the byte
\* 0x81, a length field with the mask bit 0 that is the length of p in the
\* form of its range, and then the bytes of p.
C13_RoundTrip ==
    call.fn = "ws_frame" =>
    /\ (/\ ret.read # <<>>
        /\ call.masked /\ call.b0 % 16 = 1
        /\ call.avail = StreamLen(call.stream)) =>
            /\ ret.read[1].rc = 1
            /\ ret.read[1].payload_len = <<call.p.len>>
            /\ Len(ret.read[1].payload) = 1
            /\ SamePayload(ret.read[1].payload[1], call.p)
    /\ ret.send # <<>> =>
            /\ (call.conn.is_websocket /\ ret.send[1].room = GW_MAX_BODY_LEN)
                  => ret.send[1].rc = 0
            /\ ret.send[1].rc = 0 =>
                LET n == call.p.len
                    b == ret.send[1].out.bytes
                IN /\ b[1] = 129
                   /\ b[2] < 128
                   /\ n < 126 => Len(b) = 2 /\ b[2] = n
                   /\ (n >= 126 /\ n < 65536) =>
                         /\ Len(b) = 4 /\ b[2] = 126
                         /\ b[3] * 256 + b[4] = n
                   /\ n >= 65536 =>
                         /\ Len(b) = 10 /\ b[2] = 127
                         /\ b[3] = 0 /\ b[4] = 0 /\ b[5] = 0 /\ b[6] = 0
                         /\ ((b[7] * 256 + b[8]) * 256 + b[9]) * 256 + b[10] = n
                   /\ SamePayload(ret.send[1].out.tail, call.p)

\* a masked text frame of the longest range, with a key that changes every
\* byte, was read whole, and its text was sent
C13_Witness ==
    /\ call.fn = "ws_frame"
    /\ ret.read # <<>> /\ ret.send # <<>>
    /\ call.masked /\ call.b0 = 129
    /\ call.avail = StreamLen(call.stream)
    /\ call.p.len = 70000
    /\ call.key = <<1, 2, 3, 4>>
    /\ ret.read[1].rc = 1
    /\ ret.send[1].rc = 0

\* the routes of the table that match the request, by index
Matching == {i \in 1..Len(call.gw.routes) :
               route_matches(call.gw.routes[i], call.req.method, call.req.path)}

\* C14: for a request that is not OPTIONS, router_dispatch calls exactly one
\* handler, that of the matching route of lowest index, and sends exactly
\* one response; when no route matches it calls no handler and answers 404
\* with the body {"error":"Not Found"}.  The handler is a function of the
\* table, the method and the path.
C14_FirstMatchWins ==
    (/\ call.fn = "router_dispatch" /\ ret.dispatch # <<>>
     /\ call.req.method # HTTP_OPTIONS) =>
        LET d == ret.dispatch[1] IN
        /\ Len(d.sends) = 1
        /\ Matching # {} =>
             \E i \in Matching :
                /\ \A j \in Matching : i <= j
                /\ d.handlers = <<call.gw.routes[i].handler>>
        /\ Matching = {} =>
             /\ d.handlers = <<>>
             /\ d.resp.status_code = 404
             /\ d.resp.body = "{\"error\":\"Not Found\"}"

\* two routes match the request and the first one's handler was called
C14_Witness ==
    /\ call.fn = "router_dispatch" /\ ret.dispatch # <<>>
    /\ call.req.method = HTTP_POST
    /\ Matching = {1, 2}
    /\ call.gw.routes[1].pattern # call.gw.routes[2].pattern
    /\ ret.dispatch[1].handlers = <<"handler_health">>

\* C15: route_matches is true exactly when the methods are equal and the
\* pattern is the path, or the pattern ends in '*' and the path begins with
\* what stands before that '*'; the pattern "*" matches every path.
C15_WildcardRule ==
    (call.fn = "router_dispatch" /\ ret.match # <<>>) =>
        LET route == call.gw.routes[1]
            pattern == route.pattern
            path == call.req.path
            plen == Len(pattern)
        IN ret.match[1] <=>
             /\ route.method = call.req.method
             /\ \/ pattern = path
                \/ /\ plen >= 1 /\ pattern[plen] = "*"
                   /\ Len(path) >= plen - 1
                   /\ SubSeq(path, 1, plen - 1) = SubSeq(pattern, 1, plen - 1)

\* the text router_dispatch sends for the CORS preflight
PreflightBytes ==
    "HTTP/1.1 204 No Content\r\n"
    \o "Access-Control-Allow-Origin: *\r\n"
    \o "Access-Control-Allow-Methods: GET, POST, OPTIONS\r\n"
    \o "Access-Control-Allow-Headers: Content-Type, Authorization\r\n"
    \o "Content-Length: 0\r\n"
    \o "\r\n"

\* C16: an OPTIONS request, whatever its path and the table, is answered
\* 204 No Content with the three CORS headers, Content-Length: 0 and no
\* body, and no handler is called.
C16_Preflight ==
    (/\ call.fn = "router_dispatch" /\ ret.dispatch # <<>>
     /\ call.req.method = HTTP_OPTIONS) =>
        LET d == ret.dispatch[1] IN
        /\ d.handlers = <<>>
        /\ Len(d.sends) = 1
        /\ d.resp.status_code = 204
        /\ d.resp.body_len = 0
        /\ d.bytes = PreflightBytes

\* an OPTIONS request for a path that a route of the table names
C16_Witness ==
    /\ call.fn = "router_dispatch" /\ ret.dispatch # <<>>
    /\ call.req.method = HTTP_OPTIONS
    /\ Len(call.gw.routes) = 2
    /\ call.gw.routes[1].pattern = call.req.path
    /\ ret.dispatch[1].resp.status_code = 204

\* C17: every response router_dispatch sends for a request that is not
\* OPTIONS has the header Access-Control-Allow-Origin: *, the 404 and the
\* error responses of the handlers too.
C17_CorsEverywhere ==
    (/\ call.fn = "router_dispatch" /\ ret.dispatch # <<>>
     /\ call.req.method # HTTP_OPTIONS) =>
        \E i \in 1..Len(ret.dispatch[1].resp.headers) :
           ret.dispatch[1].resp.headers[i] = <<"Access-Control-Allow-Origin", "*">>

\* the status line of the last set_status of a log (200 OK when none)
RECURSIVE LastStatusLine(_)
LastStatusLine(log) ==
    IF log = <<>> THEN "HTTP/1.1 200 OK\r\n"
    ELSE LET c == log[Len(log)] IN
         IF c.op = "set_status"
         THEN "HTTP/1.1 " \o ToString(c.code) \o " " \o c.text \o "\r\n"
         ELSE LastStatusLine(SubSeq(log, 1, Len(log) - 1))

\* the header lines of a log, in the order of the calls; set_json adds
\* Content-Type: application/json
RECURSIVE AddedHeaderLines(_)
AddedHeaderLines(log) ==
    IF log = <<>> THEN ""
    ELSE LET c == log[1] IN
         (IF c.op = "add_header" THEN c.key \o ": " \o c.value \o "\r\n"
          ELSE IF c.op = "set_json" THEN "Content-Type: application/json\r\n"
          ELSE "")
         \o AddedHeaderLines(Tail(log))

\* the last body set by a log ("" when none)
RECURSIVE LastBody(_)
LastBody(log) ==
    IF log = <<>> THEN ""
    ELSE LET c == log[Len(log)] IN
         IF c.op \in {"set_body", "set_json"} THEN c.body
         ELSE LastBody(SubSeq(log, 1, Len(log) - 1))

C19_HealthCount ==
    (ev.dispatched /\ ev.handler = "handler_health") =>
        \E n \in 0..MaxFd : ev.body = HealthBody(parsed_requests, n)

\* the chat request passed the checks of handler_chat and an API key was
\* resolved for its provider
ChatValidated ==
    /\ call.req.has_body /\ call.req.body_len > 0
    /\ call.body.valid
    /\ \E i \in 1..Len(call.body.messages) :
          call.body.messages[i].role = "user"
          /\ call.body.messages[i].content # <<>>
    /\ call.cfg.api_key[chat_provider(call.body, call.cfg)]

\* C20: for a validated chat request with a resolved API key, handler_chat
\* answers 502 with {error:{message,type}} exactly when the upstream call
\* returned a failure code, and 200 with the chat.completion envelope whose
\* finish_reason is "stop" whenever it returned OC_OK, also when the stream
\* delivered no text delta.
C20_ChatOutcome ==
    (call.fn = "handler_chat" /\ ret.done /\ ChatValidated) =>
        /\ ret.out.rc # OC_OK <=>
              /\ ret.resp.status_code = 502
              /\ ret.resp.body = ChatError("AI API request failed", "server_error")
        /\ ret.out.rc = OC_OK => ret.resp.status_code = 200


(***************************************************************************)
(* The upstream call of the webhook and chat handlers.                     *)
(***************************************************************************)

\* the webhook request passed the checks of handler_webhook on its body
HookBodyOk ==
    /\ call.req.has_body /\ call.req.body_len > 0
    /\ call.body.valid
    /\ call.body.message # <<>> /\ call.body.message[1] # ""

\* the chat request passed the checks of handler_chat on its body
ChatBodyOk ==
    /\ call.req.has_body /\ call.req.body_len > 0
    /\ call.body.valid
    /\ \E i \in 1..Len(call.body.messages) :
          call.body.messages[i].role = "user"
          /\ call.body.messages[i].content # <<>>

\* the request was answered with this status and this body
Answered(status, body) ==
    ret.resp.status_code = status /\ ret.resp.body = body

\* C21: a handler issues the upstream POST at most once per request, and
\* only when the body is non-empty, is JSON, has the required field and an
\* API key was resolved; otherwise it answers the 400 of the first body
\* check that failed, or 500 "No API key configured" when only the key is
\* missing, and makes no upstream call.
C21_SinglePost ==
    ret.done =>
       /\ Len(ret.posts) <= 1
       /\ call.fn = "handler_webhook" =>
            /\ ret.posts # <<>> <=>
                  HookBodyOk /\ call.cfg.api_key[call.cfg.default_provider]
            /\ ~(call.req.has_body /\ call.req.body_len > 0) =>
                  Answered(400, "{\"error\":\"Empty body\"}")
            /\ (call.req.has_body /\ call.req.body_len > 0 /\ ~call.body.valid) =>
                  Answered(400, "{\"error\":\"Invalid JSON\"}")
            /\ (call.req.has_body /\ call.req.body_len > 0 /\ call.body.valid
                  /\ ~HookBodyOk) =>
                  Answered(400, "{\"error\":\"Missing 'message' field\"}")
            /\ (HookBodyOk /\ ~call.cfg.api_key[call.cfg.default_provider]) =>
                  Answered(500, "{\"error\":\"No API key configured\"}")
       /\ call.fn = "handler_chat" =>
            /\ ret.posts # <<>> <=> ChatValidated
            /\ ~(call.req.has_body /\ call.req.body_len > 0) =>
                  Answered(400, ChatError("Empty body", "invalid_request_error"))
            /\ (call.req.has_body /\ call.req.body_len > 0 /\ ~call.body.valid) =>
                  Answered(400, ChatError("Invalid JSON", "invalid_request_error"))
            /\ (call.req.has_body /\ call.req.body_len > 0 /\ call.body.valid
                  /\ ~ChatBodyOk) =>
                  /\ ret.resp.status_code = 400
                  /\ ret.resp.body \in
                        {ChatError("Missing messages array", "invalid_request_error"),
                         ChatError("No user message found", "invalid_request_error")}
            /\ (ChatBodyOk /\ ~ChatValidated) =>
                  Answered(500, ChatError("No API key configured", "server_error"))

\* a handler made its one upstream call and the call failed, where a retry
\* would have posted again
C21_Witness ==
    /\ ret.done /\ Len(ret.posts) = 1 /\ ret.out.rc # OC_OK
    /\ ret.resp.status_code = 502


\* C22: the body of every non-200 webhook response is a JSON object with a
\* top-level "error" item, the body of every non-200 chat response one whose
\* "error" item is an object with "message" and "type", and no 200 response
\* of either handler has an "error" item anywhere.
C22_ErrorShape ==
    ret.done =>
       /\ ret.resp.body = JsonPrint(ret.json)
       /\ (call.fn = "handler_webhook" /\ ret.resp.status_code # 200) =>
             JsonHas(ret.json, "error")
       /\ (call.fn = "handler_chat" /\ ret.resp.status_code # 200) =>
             /\ JsonHas(ret.json, "error")
             /\ JsonHas(JsonGet(ret.json, "error"), "message")
             /\ JsonHas(JsonGet(ret.json, "error"), "type")
       /\ ret.resp.status_code = 200 => ~JsonHasDeep(ret.json, "error")

\* a chat request refused for want of an API key
C22_Witness ==
    /\ ret.done /\ call.fn = "handler_chat"
    /\ ret.resp.status_code = 500
    /\ JsonGet(JsonGet(ret.json, "error"), "type").s = "server_error"


\* the model named in the chat request starts with these characters
ModelStartsWith(prefix) ==
    /\ call.body.model # NULLSTR
    /\ Len(call.body.model) >= Len(prefix)
    /\ SubSeq(call.body.model, 1, Len(prefix)) = prefix

\* the provider the model of the chat request stands for
ProviderOfModel ==
    IF ModelStartsWith(<<"c","l","a","u","d","e">>) THEN "PROVIDER_ANTHROPIC"
    ELSE IF ModelStartsWith(<<"g","p","t">>) THEN "PROVIDER_OPENAI"
    ELSE call.cfg.default_provider

\* C23: handler_chat picks the upstream from the model of the request alone
\* (claude... Anthropic, gpt... OpenAI, anything else or none the configured
\* default), and the key, the URL, the body builder and the stream dialect
\* of its upstream call all belong to that one provider.
C23_OneProvider ==
    (ret.done /\ call.fn = "handler_chat" /\ ret.posts # <<>>) =>
        LET post == ret.posts[1] IN
        /\ post.provider = ProviderOfModel
        /\ post.sctx_provider = ProviderOfModel
        /\ post.api_key = "key:" \o ProviderOfModel
        /\ ProviderOfModel = "PROVIDER_ANTHROPIC" =>
              /\ post.url = "https://api.anthropic.com/v1/messages"
              /\ post.ai_body.builder = "json_build_anthropic_request"
        /\ ProviderOfModel = "PROVIDER_OPENAI" =>
              /\ post.url = "https://api.openai.com/v1/chat/completions"
              /\ post.ai_body.builder = "json_build_openai_request"

\* a gpt model under a configuration whose default is Anthropic
C23_Witness ==
    /\ ret.done /\ call.fn = "handler_chat" /\ ret.posts # <<>>
    /\ call.cfg.default_provider = "PROVIDER_ANTHROPIC"
    /\ ModelStartsWith(<<"g","p","t">>)
    /\ ret.posts[1].url = "https://api.openai.com/v1/chat/completions"


\* the positions of the messages of the chat request with this role and a
\* content
MessagesOf(role) ==
    {i \in 1..Len(call.body.messages) :
        call.body.messages[i].role = role /\ call.body.messages[i].content # <<>>}

Lowest(S) == CHOOSE i \in S : \A j \in S : i <= j
Highest(S) == CHOOSE i \in S : \A j \in S : j <= i

\* C24: handler_chat forwards the content of the last "user" message as the
\* user message and the content of the first "system" message as the system
\* prompt, the configured system prompt only when the request has no system
\* message.
C24_FirstSystem ==
    (ret.done /\ call.fn = "handler_chat" /\ ret.posts # <<>>) =>
        /\ ret.posts[1].ai_body.user =
              call.body.messages[Highest(MessagesOf("user"))].content[1]
        /\ ret.posts[1].ai_body.system =
              IF MessagesOf("system") = {} THEN call.cfg.system_prompt
              ELSE call.body.messages[Lowest(MessagesOf("system"))].content[1]


(***************************************************************************)
(* The SSE parser.                                                         *)
(***************************************************************************)

\* the bytes of the stream fed so far
Fed == SubSeq(call.stream, 1, ret.fed)

\* the concatenation of a sequence of byte sequences
RECURSIVE Flatten(_)
Flatten(ss) == IF ss = <<>> THEN <<>> ELSE Head(ss) \o Flatten(Tail(ss))

\* the callbacks of the sequence of dispatched events
RECURSIVE CallsOf(_)
CallsOf(events) ==
    IF events = <<>> THEN <<>>
    ELSE LET ev1 == Head(events)
             n == Len(ev1) - DelimLen(ev1, Len(ev1)) IN
         stream_dispatch(SubSeq(ev1, 1, n)) \o CallsOf(Tail(events))

\* C25: however the stream is cut into chunks, after each chunk the parser
\* has made the callbacks that feeding the same bytes in one piece makes;
\* the dispatched events followed by the buffer are the bytes fed, each
\* dispatched event ends with its blank line and holds no earlier one, it
\* was dispatched once, and the buffer holds no complete event.
C25_ChunkIndependent ==
    call.fn = "stream_feed" =>
        /\ ret.ctx = stream_feed(ZeroStreamCtx, Fed)
        /\ Flatten(ret.ctx.events) \o ret.ctx.buf = Fed
        /\ \A i \in 1..Len(ret.ctx.events) :
              LET e == ret.ctx.events[i] IN
              {j \in 1..Len(e) : EndsEvent(e, j)} = {Len(e)}
        /\ \A j \in 1..Len(ret.ctx.buf) : ~EndsEvent(ret.ctx.buf, j)
        /\ ret.ctx.calls = CallsOf(ret.ctx.events)

\* an event ended by CR LF CR LF was dispatched and the bytes of the next
\* event, still incomplete at the end of the stream, are buffered
C25_Witness ==
    /\ call.fn = "stream_feed"
    /\ ret.fed = Len(call.stream)
    /\ Len(ret.ctx.events) = 1 /\ DelimLen(ret.ctx.events[1], Len(ret.ctx.events[1])) = 4
    /\ ret.ctx.calls = <<[cb |-> "on_text", text |-> <<"t">>]>>
    /\ ret.ctx.buf = <<"t">>


(***************************************************************************)
(* The session store.                                                      *)
(***************************************************************************)

\* the row of the session with this id
SessionRow(d, id) == CHOOSE s \in d.sessions : s.id = id

\* C26: after a successful session_store_add_message on a session, the
\* session's updated_at is the time of the append, not before its previous
\* value, its created_at or the created_at of the new message, and the rows
\* of the other sessions are as they were.
C26_UpdatedAt ==
    (/\ ret.fn = "session_store_add_message" /\ ret.rc = OC_OK
     /\ ret.session_id \in SessionIdsOf(db)) =>
        LET s == SessionRow(db, ret.session_id) IN
        /\ s.updated_at = ret.at
        /\ s.updated_at >= SessionRow(ret.before, ret.session_id).updated_at
        /\ s.updated_at >= s.created_at
        /\ s.updated_at >= db.messages[Len(db.messages)].created_at
        /\ \A o \in db.sessions : o.id # ret.session_id => o \in ret.before.sessions

\* C27: the session_id of every message row is the id of a session row, and
\* session_store_add_message with an id that was never created returns an
\* error and inserts nothing.
C27_MessageHasSession ==
    /\ \A i \in 1..Len(db.messages) :
          db.messages[i].session_id \in SessionIdsOf(db)
    /\ (/\ ret.fn = "session_store_add_message"
        /\ ret.session_id \notin SessionIdsOf(ret.before)) =>
          ret.rc = OC_ERR /\ db.messages = ret.before.messages

\* the ids of the messages of a session, newest first: by created_at, then
\* by id
RECURSIVE NewestFirst(_, _)
NewestFirst(d, ids) ==
    IF ids = {} THEN <<>>
    ELSE LET top == CHOOSE i \in ids : \A j \in ids :
                        \/ d.messages[i].created_at > d.messages[j].created_at
                        \/ /\ d.messages[i].created_at = d.messages[j].created_at
                           /\ i >= j
         IN <<top>> \o NewestFirst(d, ids \ {top})

\* C28: session_store_get_history returns the min(n, L) most recent messages
\* of the session and none of another, L being the limit when it is positive
\* and 50 otherwise, newest first, messages of the same second in the order
\* of their ids.
C28_History ==
    ret.fn = "session_store_get_history" =>
        LET all == NewestFirst(db, {i \in 1..Len(db.messages) :
                       db.messages[i].session_id = ret.session_id})
            L == IF ret.limit > 0 THEN ret.limit ELSE 50
        IN ret.ids = SubSeq(all, 1, Min(Len(all), L))


\* reading JSON text: a failed reading
NoParse == [ok |-> FALSE, val |-> <<>>, next |-> 0]

\* the text has the characters lit from position i on
Expect(text, i, lit) ==
    /\ i + Len(lit) - 1 <= Len(text)
    /\ SubSeq(text, i, i + Len(lit) - 1) = lit

\* the characters of a JSON string from position i, behind its opening
\* quote, up to its closing quote: a backslash escapes a quote or a
\* backslash, a bare control character is not allowed
RECURSIVE ReadChars(_, _, _)
ReadChars(text, i, acc) ==
    IF i > Len(text) THEN NoParse
    ELSE IF text[i] = "\"" THEN [ok |-> TRUE, val |-> acc, next |-> i + 1]
    ELSE IF text[i] = "\\"
    THEN IF i + 1 <= Len(text) /\ text[i + 1] \in {"\"", "\\"}
         THEN ReadChars(text, i + 2, Append(acc, text[i + 1]))
         ELSE NoParse
    ELSE IF text[i] \in {LF, CR} THEN NoParse
    ELSE ReadChars(text, i + 1, Append(acc, text[i]))

\* a JSON string at position i
ReadString(text, i) ==
    IF i <= Len(text) /\ text[i] = "\"" THEN ReadChars(text, i + 1, <<>>)
    ELSE NoParse

\* an object {"role":string,"content":string} at position i
ReadRow(text, i) ==
    LET kRole == <<"{", "\"", "r", "o", "l", "e", "\"", ":">>
        kContent == <<",", "\"", "c", "o", "n", "t", "e", "n", "t", "\"", ":">>
    IN IF ~Expect(text, i, kRole) THEN NoParse
       ELSE LET r == ReadString(text, i + Len(kRole)) IN
            IF ~r.ok \/ ~Expect(text, r.next, kContent) THEN NoParse
            ELSE LET c == ReadString(text, r.next + Len(kContent)) IN
                 IF ~c.ok \/ ~Expect(text, c.next, <<"}">>) THEN NoParse
                 ELSE [ok |-> TRUE,
                       val |-> <<[role |-> r.val, content |-> c.val]>>,
                       next |-> c.next + 1]

\* the rows of an array of such objects that starts at position 1 and ends
\* the text
RECURSIVE ReadRows(_, _, _)
ReadRows(text, i, acc) ==
    LET row == ReadRow(text, i) IN
    IF ~row.ok THEN NoParse
    ELSE IF Expect(text, row.next, <<"]">>) /\ row.next = Len(text)
    THEN [ok |-> TRUE, val |-> acc \o row.val, next |-> row.next + 1]
    ELSE IF Expect(text, row.next, <<",">>)
    THEN ReadRows(text, row.next + 1, acc \o row.val)
    ELSE NoParse

ReadHistory(text) ==
    IF text = <<"[", "]">> THEN [ok |-> TRUE, val |-> <<>>, next |-> 3]
    ELSE IF Expect(text, 1, <<"[">>) THEN ReadRows(text, 2, <<>>)
    ELSE NoParse

\* C29: whatever role and content were stored, a double quote, a backslash
\* or a newline in the content included, the text session_store_get_history
\* returns is a well-formed JSON array that decodes to the stored roles and
\* contents.
C29_HistoryDecodes ==
    ret.fn = "session_store_get_history" =>
        /\ ReadHistory(ret.text).ok
        /\ ReadHistory(ret.text).val =
              [i \in 1..Len(ret.ids) |->
                  [role |-> db.messages[ret.ids[i]].role,
                   content |-> db.messages[ret.ids[i]].content]]


(***************************************************************************)
(* The tool registry.                                                      *)
(***************************************************************************)

\* the names registered with success so far
RegisteredNames == {call.registered[i].name[1] : i \in 1..Len(call.registered)}

\* the most recent successful registration under a name
LastRegistered(name) ==
    call.registered[CHOOSE i \in 1..Len(call.registered) :
        /\ call.registered[i].name[1] = name
        /\ \A j \in (i + 1)..Len(call.registered) :
              call.registered[j].name[1] # name]

\* the entries of the registry under a name
EntriesOf(name) ==
    {i \in 1..Len(tool_ctx.tools) : tool_ctx.tools[i].key = name}

\* C30: after any sequence of successful kelp_tool_register calls the
\* registry holds one entry for each registered name and no other, with the
\* description, schema, executor and flags of the latest registration under
\* that name; tool_count is the number of names; and the catalog of
\* kelp_tool_get_definitions_json has one element for each entry.
C30_OneEntryPerName ==
    call.fn = "kelp_tool" =>
        /\ \A i \in 1..Len(tool_ctx.tools) : tool_ctx.tools[i].key \in RegisteredNames
        /\ \A name \in RegisteredNames :
              /\ Cardinality(EntriesOf(name)) = 1
              /\ \A i \in EntriesOf(name) :
                    LET e == tool_ctx.tools[i].value
                        def == LastRegistered(name) IN
                    /\ e.name = name
                    /\ e.description =
                          (IF def.description = <<>> THEN "" ELSE def.description[1])
                    /\ e.params_json =
                          (IF def.params_json = <<>> THEN "{}" ELSE def.params_json[1])
                    /\ e.exec = def.exec[1]
                    /\ e.requires_sandbox = def.requires_sandbox
                    /\ e.requires_confirmation = def.requires_confirmation
        /\ tool_ctx.tool_count = Cardinality(RegisteredNames)
        /\ ret.fn = "kelp_tool_get_definitions_json" =>
              /\ Len(ret.json.a) = Cardinality(RegisteredNames)
              /\ \A name \in RegisteredNames :
                    Cardinality({i \in 1..Len(ret.json.a) :
                        JsonGet(ret.json.a[i], "name").s = name}) = 1
              /\ \A i \in 1..Len(ret.json.a) :
                    JsonGet(ret.json.a[i], "description").s =
                        tool_ctx.tools[i].value.description

\* a name was registered twice, another once, and the catalog was printed
C30_Witness ==
    /\ call.fn = "kelp_tool"
    /\ Len(call.registered) = 3 /\ Cardinality(RegisteredNames) = 2
    /\ call.registered[1].name = call.registered[3].name
    /\ call.registered[1] # call.registered[3]
    /\ ret.fn = "kelp_tool_get_definitions_json"
    /\ Len(ret.json.a) = 2


\* C31: kelp_tool_execute with a registered name calls the executor now
\* registered under it once, with "{}" for missing arguments, and returns
\* its code with the result as the executor left it; with an unregistered
\* name it calls no executor and returns -1 with the unknown-tool result.
\* The registry is as it was.
C31_Execute ==
    (call.fn = "kelp_tool" /\ ret.fn = "kelp_tool_execute") =>
        /\ tool_ctx = ret.before
        /\ ret.name \in RegisteredNames =>
              /\ ret.calls =
                    <<[exec |-> LastRegistered(ret.name).exec[1],
                       args_json |-> IF ret.args_json = <<>> THEN "{}"
                                     ELSE ret.args_json[1]]>>
              /\ ret.rc = ret.outcome.rc
              /\ ret.result = ret.outcome.result
        /\ ret.name \notin RegisteredNames =>
              /\ ret.calls = <<>>
              /\ ret.rc = -1
              /\ ret.result.output[1] = "error: unknown tool '" \o ret.name \o "'"
              /\ ret.result.is_error /\ ret.result.exit_code = -1

\* a name registered twice was executed without arguments and its executor
\* returned a failure code without marking the result an error
C31_Witness ==
    /\ call.fn = "kelp_tool" /\ ret.fn = "kelp_tool_execute"
    /\ Len(call.registered) = 2
    /\ call.registered[1].name = call.registered[2].name
    /\ call.registered[1].exec # call.registered[2].exec
    /\ ret.name = call.registered[2].name[1]
    /\ ret.args_json = <<>> /\ ret.calls # <<>>
    /\ ret.rc = -1 /\ ~ret.result.is_error


(***************************************************************************)
(* The notifications to the service manager.                               *)
(***************************************************************************)

\* C32: with NOTIFY_SOCKET set, READY=1 has been sent exactly once when the
\* event loop serves (the listen socket is bound) and STOPPING=1 after it
\* when the process exits; with NOTIFY_SOCKET unset nothing is ever sent.
C32_Notify ==
    /\ (notify.socket /\ pc \in {"while", "epoll_wait"}) =>
          notify.sent = <<"READY=1">>
    /\ (notify.socket /\ pc = "exited") =>
          notify.sent = <<"READY=1", "STOPPING=1">>
    /\ ~notify.socket => notify.sent = <<>>


(***************************************************************************)
(* Dispatch on a keep-alive connection.                                    *)
(***************************************************************************)

\* C33: the gateway dispatches a request at most once: the dispatches
\* counted never exceed the complete requests the clients have sent and the
\* gateway has parsed, and a readiness event whose read finds no new bytes
\* dispatches nothing.
C33_ExactlyOnce ==
    /\ total_requests <= parsed_requests
    /\ (ev.kind = "data" /\ ev.nread = 0) => ~ev.dispatched


(***************************************************************************)
(* The lifecycle state of a connection.                                    *)
(***************************************************************************)

C35_ResetFromWriting ==
    ev.reset_from \in {NONE, CONN_WRITING}


(***************************************************************************)
(* The connection table and the read buffer.                               *)
(***************************************************************************)

\* C36: active_connections is the number of entries of the connection
\* table, the entry at index fd is the connection of fd and lies inside the
\* table, the counter is never negative, and a close event for an fd that
\* has no entry leaves the counter alone.
C36_ActiveCount ==
    /\ active_connections = Cardinality({fd \in Fds : connections[fd] # NULL})
    /\ active_connections >= 0
    /\ \A fd \in Fds :
          IF connections[fd] # NULL
          THEN connections[fd].fd = fd /\ Desc(fd) < max_fd
          ELSE close_connection(connections, active_connections, fd).active
                  = active_connections

\* the table has grown, its connections have been closed, and the last
\* accept has left no connection: its allocations have failed
C36_Witness ==
    /\ max_fd > GW_INITIAL_MAX_FD
    /\ ev.kind = "accept"
    /\ active_connections = 0
    /\ total_requests > 0


\* GW_READ_BUF_SIZE times a power of two
RECURSIVE IsBufSize(_)
IsBufSize(n) ==
    \/ n = GW_READ_BUF_SIZE
    \/ n > GW_READ_BUF_SIZE /\ n % 2 = 0 /\ IsBufSize(n \div 2)

\* C37: for every connection read_len < read_cap <= GW_MAX_BODY_LEN +
\* GW_READ_BUF_SIZE, read_cap is GW_READ_BUF_SIZE times a power of two and
\* the terminating NUL lies inside the buffer; a read that finds the buffer
\* full at its largest size fails, and the connection is closed.
C37_ReadBuffer ==
    /\ \A fd \in Fds :
          connections[fd] # NULL =>
             /\ connections[fd].read_len < connections[fd].read_cap
             /\ connections[fd].buf_str < connections[fd].read_cap
             /\ connections[fd].read_cap <= GW_MAX_BODY_LEN + GW_READ_BUF_SIZE
             /\ IsBufSize(connections[fd].read_cap)
    /\ (ev.kind = "data" /\ ev.read_why = "too_large") =>
          /\ ev.read_rc < 0
          /\ ~ev.parsed
          /\ connections[ev.fd] = NULL

\* a read has found the buffer full at its largest size
C37_Witness ==
    /\ ev.kind = "data"
    /\ ev.read_why = "too_large"
    /\ ev.nread > GW_MAX_BODY_LEN - GW_READ_BUF_SIZE


(***************************************************************************)
(* The reply hand-off of the desktop chat.                                 *)
(***************************************************************************)
InFlight == {w \in Sends : workers[w] = "running"}

CountOf(types) ==
    Cardinality({i \in 1..Len(g_chat.messages) : g_chat.messages[i].type \in types})

\* C38: at most one response thread is in flight, response_ready and
\* response_error are written under async_lock only, no pending_response is
\* overwritten before it was shown, and the history never holds more
\* replies than messages sent and holds one reply per message once no
\* thread is in flight and no response is awaited.
C38_HandOff ==
    /\ Cardinality(InFlight) <= 1
    /\ ~g_chat.unlocked
    /\ ~g_chat.dropped
    /\ CountOf({KD_MSG_ASSISTANT, KD_MSG_ERROR}) <= CountOf({KD_MSG_USER})
    /\ (InFlight = {} /\ ~g_chat.waiting) =>
          CountOf({KD_MSG_ASSISTANT, KD_MSG_ERROR}) = CountOf({KD_MSG_USER})

(***************************************************************************)
(* The message ring of /dev/oclaw.                                         *)
(***************************************************************************)
\* the messages in the ring, from *tail to *head
Unread ==
    [i \in 1..((ring_head - ring_tail + RING_SIZE) % RING_SIZE) |->
        ring_buf[(ring_tail + i - 1) % RING_SIZE]]

\* C39: the messages dequeued so far followed by the messages in the ring
\* are the messages stored, each once and in the order of their stores (so
\* at most RING_SIZE - 1 are unread), and no store frees a message that was
\* not read.
C39_RingDelivery ==
    /\ ring_log.delivered \o Unread = [i \in 1..ring_log.stored |-> i]
    /\ ~ring_log.overwritten

\* C40: ring_lock is released only by the process that holds it, it is not
\* held by a process that waits or has returned, and it is held by the
\* process that is about to test, fill or empty the ring.
C40_LockDiscipline ==
    /\ ~ring_log.bad_unlock
    /\ \A p \in Writers \cup Readers :
          /\ procs[p].pc \in {"idle", "wait", "lock", "relock", "check",
                              "unlock_again"} => ring_lock # p
          /\ procs[p].pc \in {"full", "store", "unlock", "dequeue"} =>
                ring_lock = p

=============================================================================
